---- MODULE Spec2Model ----
(***************************************************************************)
(* Analytics Hub: the DataStore persistence and migration layer            *)
(* (src/unnamed/part_001, schema version 2) over a localStorage-like       *)
(* key-value backing store.                                                *)
(*                                                                         *)
(* A backing-store value is [kind, recs]: kind "absent" (getItem returns   *)
(* null), "corrupt" (a non-empty string that is not JSON) or "arr" (the    *)
(* JSON text of an array of flat records, held as the sequence it parses   *)
(* to).  A record is a function from the names of the fields it has to     *)
(* their values; a field that is undefined is not in its domain; the JSON  *)
(* value null is NULL.                                                     *)
(***************************************************************************)
EXTENDS Integers, Sequences, FiniteSets, TLC

VARIABLES
  ls,        \* localStorage: collection key -> backing-store value
  marker,    \* analyticsHub_schemaVersion as parseInt reads it (0: absent)
  pc,        \* position of runMigration
  cv,        \* runMigration's local currentVersion
  ki,        \* index of the forEach loop the run is in
  ls0,       \* the collections when the program first started
  marker0,   \* the marker when the program first started
  pre2,      \* the collections when the v1->v2 step was last entered
  after1,    \* collections and marker when the first run completed
  runs,      \* completed runs of runMigration
  interrupted, \* a run was stopped before its end and started again
  faultsLeft, \* backing-store writes that may still fail
  op,        \* the Store call made last: name, arguments, whether its write or read failed
  ret,       \* what that call returned
  nextId,    \* calls of generateId / new Date() so far
  opsLeft,   \* Store calls still to come
  state,     \* AppRouter's state object
  renders,   \* the states seen by the render callbacks that the Router call made last set off
  boxes      \* the search inputs' values and the debounce timers pending

vars == <<ls, marker, pc, cv, ki, ls0, marker0, pre2, after1, runs, interrupted, faultsLeft,
          op, ret, nextId, opsLeft, state, renders, boxes>>
storeVars == <<op, ret, nextId, opsLeft>>
routerVars == <<state, renders, boxes>>
migVars == <<marker, pc, cv, ki, ls0, marker0, pre2, after1, runs, interrupted, faultsLeft>>

\* ------------------------------------------------------------------ bounds
MaxRecs == 2     \* records in the entity collections of an initial store
MaxRuns == 2     \* complete runs of runMigration (page loads)
MaxFaults == 1   \* failing backing-store writes in one behaviour
MaxOps == 2      \* Store calls in one behaviour
MaxTime == 9     \* timestamps that new Date() reads back
MaxTimers == 2      \* debounce timers pending at once
MaxProjectOps == 1 \* Store calls in one behaviour of the Router
MaxExpanded == 3   \* entries of expandedDivisions a caller's pushes may reach
MaxItems == 3    \* items handed to filterBySearchTerm
MaxTerm == 2     \* characters of its search term

\* --------------------------------------------------------------- constants
SCHEMA_VERSION == 2

NULL == "null"

KEYS ==
  [REQUESTS |-> "requests", IN_PROGRESS |-> "inProgress", REPORTS |-> "reports",
   PROJECTS |-> "projects", DOCUMENTS |-> "documents",
   DASHBOARD_LINKS |-> "dashboardLinks", CONTROL_ITEMS |-> "controlItems"]

LEGACY_CLIENTS == "clients"

EntityKeys ==
  {KEYS.REQUESTS, KEYS.IN_PROGRESS, KEYS.REPORTS, KEYS.DOCUMENTS,
   KEYS.DASHBOARD_LINKS, KEYS.CONTROL_ITEMS}

AllKeys == EntityKeys \cup {KEYS.PROJECTS, LEGACY_CLIENTS}

\* ---------------------------------------------------------- stored values
Absent == [kind |-> "absent", recs |-> <<>>]
Corrupt == [kind |-> "corrupt", recs |-> <<>>]
Arr(s) == [kind |-> "arr", recs |-> s]

\* ----------------------------------------------------------------- records
Has(r, f) == f \in DOMAIN r
SetField(r, f, v) == [x \in (DOMAIN r) \cup {f} |-> IF x = f THEN v ELSE r[x]]
DelField(r, f) == [x \in (DOMAIN r) \ {f} |-> r[x]]
With(r, fs) == [x \in (DOMAIN r) \cup (DOMAIN fs) |-> IF x \in DOMAIN fs THEN fs[x] ELSE r[x]]
MapSeq(F(_), s) == [i \in 1..Len(s) |-> F(s[i])]
SeqRange(s) == {s[i] : i \in 1..Len(s)}

\* ------------------------------------------------------ getData / saveData
\* getData: a null value reads as [], a throwing getItem or JSON.parse is
\* caught and reads as []; the result records whether an exception left
\* the function.
GetDataUncaught(store, key, readThrows) ==
  IF readThrows \/ store[key].kind = "corrupt"
  THEN [threw |-> TRUE, val |-> <<>>]
  ELSE [threw |-> FALSE, val |-> store[key].recs]

GetDataR(store, key, readThrows) ==
  IF readThrows \/ store[key].kind = "corrupt"
  THEN [threw |-> FALSE, val |-> <<>>]
  ELSE [threw |-> FALSE, val |-> store[key].recs]

getData(store, key) == GetDataR(store, key, FALSE).val

\* saveData: setItem of the JSON text; a throwing setItem is caught, the
\* store keeps its value and the result is false.
saveData(store, key, data, writeFails) ==
  [store |-> IF writeFails THEN store ELSE [store EXCEPT ![key] = Arr(data)],
   ok |-> ~writeFails]

\* ================================================================ MIGRATION
Step1Keys == <<KEYS.REQUESTS, KEYS.IN_PROGRESS, KEYS.REPORTS>>
InitKeys == <<KEYS.PROJECTS, KEYS.DOCUMENTS, KEYS.DASHBOARD_LINKS, KEYS.CONTROL_ITEMS>>
Step2Keys ==
  <<KEYS.REQUESTS, KEYS.IN_PROGRESS, KEYS.REPORTS, KEYS.DOCUMENTS,
    KEYS.DASHBOARD_LINKS, KEYS.CONTROL_ITEMS>>

\* the guards of the two steps, on the version read when the run started
NeedsV1Always(v) == TRUE
NeedsV1(v) == v < 1
NeedsV2(v) == v < 2

\* (variant: the rename without its field-presence check)
BackfillItemBlind(item) ==
  LET a == IF ~Has(item, "divisionId") THEN SetField(item, "divisionId", NULL) ELSE item
      b == IF Has(a, "clientId")
           THEN DelField(SetField(a, "projectId", a["clientId"]), "clientId")
           ELSE DelField(a, "projectId")
  IN IF ~Has(b, "projectId") THEN SetField(b, "projectId", NULL) ELSE b

\* v0->v1, one item of requests / in-progress / reports
BackfillItem(item) ==
  LET a == IF ~Has(item, "divisionId") THEN SetField(item, "divisionId", NULL) ELSE item
      b == IF Has(a, "clientId")
           THEN DelField(SetField(a, "projectId", a["clientId"]), "clientId")
           ELSE a
  IN IF ~Has(b, "projectId") THEN SetField(b, "projectId", NULL) ELSE b

\* (variant: the category assigned without its field-presence check)
BackfillCategoryBlind(report) == SetField(report, "category", "recurring")

\* v0->v1, one report
BackfillCategory(report) ==
  IF ~Has(report, "category") THEN SetField(report, "category", "recurring") ELSE report

\* (variant: clientId deleted without projectId being set)
RenameClientIdLosing(item) ==
  IF Has(item, "clientId") THEN DelField(item, "clientId") ELSE item

\* v1->v2, one item of any entity collection
RenameClientId(item) ==
  IF Has(item, "clientId")
  THEN DelField(SetField(item, "projectId", item["clientId"]), "clientId")
  ELSE item

\* v0->v1: forEach body for one of the three keys (getData, transform, saveData)
S1LoopKey(store, key, wf) ==
  saveData(store, key, MapSeq(BackfillItem, getData(store, key)), wf).store

S1Category(store, wf) ==
  saveData(store, KEYS.REPORTS, MapSeq(BackfillCategory, getData(store, KEYS.REPORTS)), wf).store

\* v0->v1: the legacy clients key moves only onto an absent projects key
S1MovesClients(store) ==
  store[LEGACY_CLIENTS].kind # "absent" /\ store[KEYS.PROJECTS].kind = "absent"

S1ClientsSet(store) == [store EXCEPT ![KEYS.PROJECTS] = store[LEGACY_CLIENTS]]

ClientsRemove(store) == [store EXCEPT ![LEGACY_CLIENTS] = Absent]

S1InitKey(store, key, wf) ==
  IF store[key].kind = "absent" THEN saveData(store, key, <<>>, wf).store ELSE store

\* v1->v2: forEach body for one of the six keys; writes only when changed
S2Changed(store, key) ==
  \E i \in 1..Len(getData(store, key)) : Has(getData(store, key)[i], "clientId")

\* (variant: only the renamed items are written back)
S2LoopKeyDropping(store, key, wf) ==
  IF S2Changed(store, key)
  THEN saveData(store, key,
                MapSeq(RenameClientId,
                       SelectSeq(getData(store, key), LAMBDA it : Has(it, "clientId"))),
                wf).store
  ELSE store

S2LoopKey(store, key, wf) ==
  IF S2Changed(store, key)
  THEN saveData(store, key, MapSeq(RenameClientId, getData(store, key)), wf).store
  ELSE store

\* (variant: the legacy records always replace the projects key)
S2ReplacesAlways(store) == TRUE

\* v1->v2: !existing || existing === '[]'
S2ReplacesProjects(store) ==
  store[KEYS.PROJECTS].kind = "absent" \/ store[KEYS.PROJECTS] = Arr(<<>>)

S2ClientsSet(store) ==
  IF S2ReplacesProjects(store)
  THEN [store EXCEPT ![KEYS.PROJECTS] = store[LEGACY_CLIENTS]]
  ELSE store

\* whether the next setItem throws (quota exceeded)
FaultChoices == IF faultsLeft > 0 THEN BOOLEAN ELSE {FALSE}
Count(wf) == IF wf THEN faultsLeft - 1 ELSE faultsLeft

\* line 1136: read the marker, decide which steps run
MigStart ==
  /\ pc = "start"
  /\ cv' = marker
  /\ ki' = 1
  /\ pc' = IF NeedsV1(marker) THEN "s1_loop"
           ELSE IF NeedsV2(marker) THEN "s2_loop" ELSE "done"
  /\ pre2' = IF ~NeedsV1(marker) /\ NeedsV2(marker) THEN ls ELSE pre2
  /\ after1' = IF pc' = "done" /\ runs = 0 THEN <<ls, marker>> ELSE after1
  /\ runs' = IF pc' = "done" THEN runs + 1 ELSE runs
  /\ UNCHANGED <<ls, marker, ls0, marker0, interrupted, faultsLeft, storeVars, routerVars>>

\* lines 1140-1151
MigS1Loop ==
  /\ pc = "s1_loop"
  /\ \E wf \in FaultChoices :
       /\ ls' = S1LoopKey(ls, Step1Keys[ki], wf)
       /\ faultsLeft' = Count(wf)
  /\ IF ki < Len(Step1Keys)
     THEN ki' = ki + 1 /\ pc' = pc
     ELSE ki' = 1 /\ pc' = "s1_cat"
  /\ UNCHANGED <<marker, cv, ls0, marker0, pre2, after1, runs, interrupted, storeVars, routerVars>>

\* lines 1154-1158
MigS1Category ==
  /\ pc = "s1_cat"
  /\ \E wf \in FaultChoices :
       /\ ls' = S1Category(ls, wf)
       /\ faultsLeft' = Count(wf)
  /\ pc' = "s1_cli"
  /\ UNCHANGED <<marker, cv, ki, ls0, marker0, pre2, after1, runs, interrupted, storeVars, routerVars>>

\* lines 1161-1163: a throwing setItem leaves runMigration
MigS1ClientsSet ==
  /\ pc = "s1_cli"
  /\ IF S1MovesClients(ls)
     THEN \E wf \in FaultChoices :
            /\ ls' = IF wf THEN ls ELSE S1ClientsSet(ls)
            /\ pc' = IF wf THEN "aborted" ELSE "s1_cli_rm"
            /\ faultsLeft' = Count(wf)
     ELSE ls' = ls /\ pc' = "s1_init" /\ faultsLeft' = faultsLeft
  /\ UNCHANGED <<marker, cv, ki, ls0, marker0, pre2, after1, runs, interrupted, storeVars, routerVars>>

\* line 1164
MigS1ClientsRemove ==
  /\ pc = "s1_cli_rm"
  /\ ls' = ClientsRemove(ls)
  /\ pc' = "s1_init"
  /\ UNCHANGED <<marker, cv, ki, ls0, marker0, pre2, after1, runs, interrupted, faultsLeft, storeVars, routerVars>>

\* lines 1168-1179
MigS1Init ==
  /\ pc = "s1_init"
  /\ IF ls[InitKeys[ki]].kind = "absent"
     THEN \E wf \in FaultChoices :
            /\ ls' = S1InitKey(ls, InitKeys[ki], wf)
            /\ faultsLeft' = Count(wf)
     ELSE ls' = ls /\ faultsLeft' = faultsLeft
  /\ IF ki < Len(InitKeys)
     THEN ki' = ki + 1 /\ pc' = pc
     ELSE ki' = 1 /\ pc' = "s1_ver"
  /\ UNCHANGED <<marker, cv, ls0, marker0, pre2, after1, runs, interrupted, storeVars, routerVars>>

\* line 1181, then the guard of line 1184 on the version read at the start
MigS1Version ==
  /\ pc = "s1_ver"
  /\ \E wf \in FaultChoices :
       /\ marker' = IF wf THEN marker ELSE 1
       /\ pc' = IF wf THEN "aborted"
                ELSE IF NeedsV2(cv) THEN "s2_loop" ELSE "done"
       /\ faultsLeft' = Count(wf)
       /\ pre2' = IF ~wf /\ NeedsV2(cv) THEN ls ELSE pre2
  /\ after1' = IF pc' = "done" /\ runs = 0 THEN <<ls, marker'>> ELSE after1
  /\ runs' = IF pc' = "done" THEN runs + 1 ELSE runs
  /\ UNCHANGED <<ls, cv, ki, ls0, marker0, interrupted, storeVars, routerVars>>

\* lines 1186-1198
MigS2Loop ==
  /\ pc = "s2_loop"
  /\ IF S2Changed(ls, Step2Keys[ki])
     THEN \E wf \in FaultChoices :
            /\ ls' = S2LoopKey(ls, Step2Keys[ki], wf)
            /\ faultsLeft' = Count(wf)
     ELSE ls' = ls /\ faultsLeft' = faultsLeft
  /\ IF ki < Len(Step2Keys)
     THEN ki' = ki + 1 /\ pc' = pc
     ELSE ki' = 1 /\ pc' = "s2_cli"
  /\ UNCHANGED <<marker, cv, ls0, marker0, pre2, after1, runs, interrupted, storeVars, routerVars>>

\* lines 1201-1206
MigS2ClientsSet ==
  /\ pc = "s2_cli"
  /\ IF ls[LEGACY_CLIENTS].kind # "absent"
     THEN IF S2ReplacesProjects(ls)
          THEN \E wf \in FaultChoices :
                 /\ ls' = IF wf THEN ls ELSE S2ClientsSet(ls)
                 /\ pc' = IF wf THEN "aborted" ELSE "s2_cli_rm"
                 /\ faultsLeft' = Count(wf)
          ELSE ls' = ls /\ pc' = "s2_cli_rm" /\ faultsLeft' = faultsLeft
     ELSE ls' = ls /\ pc' = "s2_ver" /\ faultsLeft' = faultsLeft
  /\ UNCHANGED <<marker, cv, ki, ls0, marker0, pre2, after1, runs, interrupted, storeVars, routerVars>>

\* line 1207
MigS2ClientsRemove ==
  /\ pc = "s2_cli_rm"
  /\ ls' = ClientsRemove(ls)
  /\ pc' = "s2_ver"
  /\ UNCHANGED <<marker, cv, ki, ls0, marker0, pre2, after1, runs, interrupted, faultsLeft, storeVars, routerVars>>

\* line 1210
MigS2Version ==
  /\ pc = "s2_ver"
  /\ \E wf \in FaultChoices :
       /\ marker' = IF wf THEN marker ELSE SCHEMA_VERSION
       /\ pc' = IF wf THEN "aborted" ELSE "done"
       /\ faultsLeft' = Count(wf)
  /\ after1' = IF pc' = "done" /\ runs = 0 THEN <<ls, marker'>> ELSE after1
  /\ runs' = IF pc' = "done" THEN runs + 1 ELSE runs
  /\ UNCHANGED <<ls, cv, ki, ls0, marker0, pre2, interrupted, storeVars, routerVars>>

\* the page is loaded again: App.init calls runMigration from its first line
Reload ==
  /\ pc \in {"done", "aborted"}
  /\ runs < MaxRuns
  /\ pc' = "start"
  /\ UNCHANGED <<ls, marker, cv, ki, ls0, marker0, pre2, after1, runs, interrupted, faultsLeft, storeVars, routerVars>>

\* the process stops between two backing-store writes and the page is loaded again
Interrupt ==
  /\ pc \in {"s1_loop", "s1_cat", "s1_cli", "s1_cli_rm", "s1_init", "s1_ver",
             "s2_loop", "s2_cli", "s2_cli_rm", "s2_ver"}
  /\ pc' = "start"
  /\ interrupted' = TRUE
  /\ UNCHANGED <<ls, marker, cv, ki, ls0, marker0, pre2, after1, runs, faultsLeft, storeVars, routerVars>>

\* the run with no interruption and no failing write, as one function
RECURSIVE FoldKeys(_, _, _, _)
FoldKeys(F(_, _, _), store, keys, i) ==
  IF i > Len(keys) THEN store ELSE FoldKeys(F, F(store, keys[i], FALSE), keys, i + 1)

StepV1(store) ==
  LET a == S1Category(FoldKeys(S1LoopKey, store, Step1Keys, 1), FALSE)
      b == IF S1MovesClients(a) THEN ClientsRemove(S1ClientsSet(a)) ELSE a
  IN FoldKeys(S1InitKey, b, InitKeys, 1)

StepV2(store) ==
  LET a == FoldKeys(S2LoopKey, store, Step2Keys, 1)
  IN IF a[LEGACY_CLIENTS].kind # "absent" THEN ClientsRemove(S2ClientsSet(a)) ELSE a

Uninterrupted(store, m) ==
  LET a == IF NeedsV1(m) THEN StepV1(store) ELSE store
      b == IF NeedsV2(m) THEN StepV2(a) ELSE a
  IN <<b, IF NeedsV2(m) THEN SCHEMA_VERSION ELSE IF NeedsV1(m) THEN 1 ELSE m>>

\* ------------------------------------------------- stores a program start finds
\* Record shapes the three generations of the Store have written: schema 0
\* (no foreign keys), schema 1 (clientId) and schema 2 (projectId); reports
\* also before and after the category backfill.
Base(key, n) ==
  [id |-> key \o "-" \o ToString(n), title |-> "t" \o ToString(n)]

Shapes(key) ==
  IF key = KEYS.REQUESTS
  THEN {<<>>,
        [divisionId |-> NULL, clientId |-> NULL],
        [divisionId |-> "d1", clientId |-> "p1"],
        [divisionId |-> "d1", projectId |-> "p1"]}
  ELSE IF key = KEYS.IN_PROGRESS
  THEN {<<>>, [divisionId |-> "d1", clientId |-> "p1"]}
  ELSE IF key = KEYS.REPORTS
  THEN {<<>>,
        [divisionId |-> NULL, clientId |-> NULL],
        [divisionId |-> "d1", clientId |-> "p1", category |-> "legal"],
        [divisionId |-> "d1", projectId |-> "p2", category |-> "pricing"]}
  ELSE IF key = KEYS.DOCUMENTS
  THEN {[clientId |-> "p1", category |-> "legal"],
        [projectId |-> "p1", category |-> "legal"]}
  ELSE {[clientId |-> "p1"]}

RECURSIVE Fixtures(_)
Fixtures(n) ==
  IF n = 0 THEN {[k \in EntityKeys |-> <<>>]}
  ELSE LET prev == Fixtures(n - 1)
       IN prev \cup
          UNION {{[e EXCEPT ![k] = Append(e[k], With(Base(k, Len(e[k]) + 1), sh))] :
                    e \in prev, sh \in Shapes(k)} : k \in EntityKeys}

ProjectRec(id) == [id |-> id, name |-> "n" \o id, divisionId |-> "d1", isActive |-> TRUE]

StoreOf(e, pj, cl, bad) ==
  [k \in AllKeys |->
     IF k = KEYS.PROJECTS THEN pj
     ELSE IF k = LEGACY_CLIENTS THEN cl
     ELSE IF Len(e[k]) > 0 THEN Arr(e[k])
     ELSE IF k = bad THEN Corrupt ELSE Absent]

\* MaxRecs records with the project keys of a fresh schema-0 or schema-2 store,
\* or one record fewer with every combination of projects key, legacy clients
\* key and unreadable requests key
InitialStores ==
  {StoreOf(e, pj, Absent, "none") :
     e \in Fixtures(MaxRecs), pj \in {Absent, Arr(<<ProjectRec("p2")>>)}}
  \cup
  {StoreOf(e, pj, cl, bad) :
     e \in Fixtures(MaxRecs - 1),
     pj \in {Absent, Arr(<<>>), Corrupt, Arr(<<ProjectRec("p2")>>)},
     cl \in {Absent, Arr(<<ProjectRec("p1")>>)},
     bad \in {"none", KEYS.REQUESTS}}


\* ==================================================================== STORE
\* generateId: prefix, Date.now() and a random suffix; n stands for the pair
\* (time, suffix) of the n-th call.  Stamp(n) is new Date().toISOString() at
\* that call and TimeOf what new Date(text) reads back from it (-1: NaN).
generateId(prefix, n) == prefix \o "-" \o ToString(n)
Stamp(n) == "T" \o ToString(n)
TimeOf(text) ==
  IF \E n \in 0..MaxTime : Stamp(n) = text
  THEN CHOOSE n \in 0..MaxTime : Stamp(n) = text
  ELSE -1

\* String.prototype.trim on the strings the inputs are drawn from
Trim(text) ==
  IF text = " a " THEN "a" ELSE IF text = " b" THEN "b" ELSE IF text = "  " THEN "" ELSE text

\* data.f || d ; an undefined field is one the record does not have
OrElse(data, f, d) == IF Has(data, f) /\ data[f] \notin {NULL, ""} THEN data[f] ELSE d

\* a field read from the input: absent when undefined (JSON.stringify drops it)
Copy(data, f) == IF Has(data, f) THEN [x \in {f} |-> data[f]] ELSE <<>>

\* Object.assign(record, updates)
\* (AssignReplacing: the record is replaced by the updates and its id)
AssignReplacing(r, updates) == With([id |-> r["id"]], updates)

Assign(r, updates) == With(r, updates)

\* what a Store function hands back: a record, a boolean or null
RetRec(r) == [t |-> "rec", v |-> r]
RetBool(b) == [t |-> "bool", v |-> [ok |-> b]]
RetNull == [t |-> "null", v |-> [none |-> TRUE]]
RetList(l) == [t |-> "list", v |-> [items |-> l]]
RetThrew == [t |-> "threw", v |-> [none |-> TRUE]]

IndexOf(items, id) ==
  IF \E i \in 1..Len(items) : items[i]["id"] = id
  THEN CHOOSE i \in 1..Len(items) :
         /\ items[i]["id"] = id
         /\ \A j \in 1..(i - 1) : items[j]["id"] # id
  ELSE 0

\* an add* that saves the new record alone
AddToReplacing(store, key, rec, wf) ==
  [store |-> saveData(store, key, <<rec>>, wf).store,
   ret |-> RetRec(rec)]

\* add*: getData, build the record, push, saveData (result dropped), return it
AddTo(store, key, rec, wf) ==
  [store |-> saveData(store, key, Append(getData(store, key), rec), wf).store,
   ret |-> RetRec(rec)]

\* an update* that adds the record when no record has the id
UpdateInUpserting(store, key, id, updates, wf) ==
  LET items == getData(store, key)
      i == IndexOf(items, id)
  IN IF i # 0
     THEN [store |-> saveData(store, key, [items EXCEPT ![i] = Assign(items[i], updates)], wf).store,
           ret |-> RetRec(Assign(items[i], updates))]
     ELSE [store |-> saveData(store, key, Append(items, Assign([id |-> id], updates)), wf).store,
           ret |-> RetNull]

\* update*: getData, find by id, Object.assign, saveData (result dropped),
\* return the record, or null when no record has the id
UpdateIn(store, key, id, updates, wf) ==
  LET items == getData(store, key)
      i == IndexOf(items, id)
  IN IF i # 0
     THEN [store |-> saveData(store, key, [items EXCEPT ![i] = Assign(items[i], updates)], wf).store,
           ret |-> RetRec(Assign(items[i], updates))]
     ELSE [store |-> store, ret |-> RetNull]

\* delete*: getData, filter by id, return saveData's result
DeleteFrom(store, key, id, wf) ==
  LET rest == SelectSeq(getData(store, key), LAMBDA r : r["id"] # id)
      saved == saveData(store, key, rest, wf)
  IN [store |-> saved.store, ret |-> RetBool(saved.ok)]

\* ---- projects
addProject(store, projectData, n, wf) ==
  AddTo(store, KEYS.PROJECTS,
        With([id |-> generateId("proj", n), name |-> Trim(projectData["name"]),
              isActive |-> TRUE, dateCreated |-> Stamp(n)],
             Copy(projectData, "divisionId")),
        wf)
updateProject(store, id, updates, wf) == UpdateIn(store, KEYS.PROJECTS, id, updates, wf)

\* a deleteProject that also removes the records that reference the project
deleteProjectCascading(store, id, wf) ==
  LET swept == [k \in DOMAIN store |->
                  IF k \in EntityKeys /\ store[k].kind = "arr"
                  THEN Arr(SelectSeq(store[k].recs, LAMBDA r : ~(Has(r, "projectId") /\ r["projectId"] = id)))
                  ELSE store[k]]
  IN DeleteFrom(IF wf THEN store ELSE swept, KEYS.PROJECTS, id, wf)

deleteProject(store, id, wf) == DeleteFrom(store, KEYS.PROJECTS, id, wf)

\* ---- requests
addRequest(store, requestData, n, wf) ==
  AddTo(store, KEYS.REQUESTS,
        With([id |-> generateId("req", n),
              description |-> Trim(requestData["description"]),
              requester |-> Trim(requestData["requester"]),
              divisionId |-> OrElse(requestData, "divisionId", NULL),
              projectId |-> OrElse(requestData, "projectId", NULL),
              dateSubmitted |-> Stamp(n)],
             Copy(requestData, "urgency")),
        wf)
updateRequest(store, id, updates, wf) == UpdateIn(store, KEYS.REQUESTS, id, updates, wf)
deleteRequest(store, id, wf) == DeleteFrom(store, KEYS.REQUESTS, id, wf)

\* ---- in progress
addInProgressItem(store, itemData, n, wf) ==
  AddTo(store, KEYS.IN_PROGRESS,
        [id |-> generateId("prog", n),
         taskDescription |-> Trim(itemData["taskDescription"]),
         requester |-> Trim(itemData["requester"]),
         status |-> OrElse(itemData, "status", "not-started"),
         targetCompletionDate |-> OrElse(itemData, "targetCompletionDate", NULL),
         divisionId |-> OrElse(itemData, "divisionId", NULL),
         projectId |-> OrElse(itemData, "projectId", NULL),
         dateCreated |-> Stamp(n)],
        wf)
updateInProgressItem(store, id, updates, wf) == UpdateIn(store, KEYS.IN_PROGRESS, id, updates, wf)
updateInProgressStatus(store, id, newStatus, wf) ==
  UpdateIn(store, KEYS.IN_PROGRESS, id, [status |-> newStatus], wf)
deleteInProgressItem(store, id, wf) == DeleteFrom(store, KEYS.IN_PROGRESS, id, wf)

\* ---- reports
addReport(store, reportData, n, wf) ==
  AddTo(store, KEYS.REPORTS,
        With([id |-> generateId("rpt", n),
              title |-> Trim(reportData["title"]),
              description |-> Trim(OrElse(reportData, "description", "")),
              linkUrl |-> Trim(OrElse(reportData, "linkUrl", "")),
              isActive |-> ~(Has(reportData, "isActive") /\ reportData["isActive"] = FALSE),
              divisionId |-> OrElse(reportData, "divisionId", NULL),
              projectId |-> OrElse(reportData, "projectId", NULL),
              category |-> OrElse(reportData, "category", "recurring")],
             Copy(reportData, "datePublished")),
        wf)
updateReport(store, id, updates, wf) == UpdateIn(store, KEYS.REPORTS, id, updates, wf)
deleteReport(store, id, wf) == DeleteFrom(store, KEYS.REPORTS, id, wf)

\* ---- documents
addDocument(store, docData, n, wf) ==
  AddTo(store, KEYS.DOCUMENTS,
        With(With([id |-> generateId("doc", n),
                   title |-> Trim(docData["title"]),
                   description |-> Trim(OrElse(docData, "description", "")),
                   linkUrl |-> Trim(OrElse(docData, "linkUrl", "")),
                   source |-> OrElse(docData, "source", "manual"),
                   dateAdded |-> Stamp(n),
                   datePublished |-> OrElse(docData, "datePublished", NULL)],
                  Copy(docData, "projectId")),
             Copy(docData, "category")),
        wf)
updateDocument(store, id, updates, wf) == UpdateIn(store, KEYS.DOCUMENTS, id, updates, wf)
deleteDocument(store, id, wf) == DeleteFrom(store, KEYS.DOCUMENTS, id, wf)

\* ---- dashboard links
addDashboardLink(store, linkData, n, wf) ==
  AddTo(store, KEYS.DASHBOARD_LINKS,
        With([id |-> generateId("dash", n),
              title |-> Trim(linkData["title"]),
              url |-> Trim(OrElse(linkData, "url", "")),
              type |-> OrElse(linkData, "type", "performance"),
              description |-> Trim(OrElse(linkData, "description", "")),
              dateAdded |-> Stamp(n)],
             Copy(linkData, "projectId")),
        wf)
updateDashboardLink(store, id, updates, wf) == UpdateIn(store, KEYS.DASHBOARD_LINKS, id, updates, wf)
deleteDashboardLink(store, id, wf) == DeleteFrom(store, KEYS.DASHBOARD_LINKS, id, wf)

\* ---- control items
addControlItem(store, itemData, n, wf) ==
  AddTo(store, KEYS.CONTROL_ITEMS,
        With([id |-> generateId("ctrl", n),
              title |-> Trim(itemData["title"]),
              description |-> Trim(OrElse(itemData, "description", "")),
              assignee |-> Trim(OrElse(itemData, "assignee", "")),
              frequency |-> OrElse(itemData, "frequency", "monthly"),
              lastCompleted |-> OrElse(itemData, "lastCompleted", NULL),
              nextDue |-> OrElse(itemData, "nextDue", NULL),
              status |-> OrElse(itemData, "status", "current"),
              dateCreated |-> Stamp(n)],
             Copy(itemData, "projectId")),
        wf)
updateControlItem(store, id, updates, wf) == UpdateIn(store, KEYS.CONTROL_ITEMS, id, updates, wf)
deleteControlItem(store, id, wf) == DeleteFrom(store, KEYS.CONTROL_ITEMS, id, wf)

\* ------------------------------------------------------------------ queries
\* JavaScript falsiness of item[f]: undefined, null or the empty string
Falsy(r, f) == ~Has(r, f) \/ r[f] \in {NULL, ""}
FieldIs(r, f, v) == Has(r, f) /\ r[f] = v

\* Array.prototype.sort (stable) with a comparator: an item goes before the
\* first already placed item it compares below
RECURSIVE InsertSorted(_, _, _, _)
InsertSorted(Cmp(_, _), t, x, i) ==
  IF i > Len(t) THEN Append(t, x)
  ELSE IF Cmp(x, t[i]) < 0
       THEN SubSeq(t, 1, i - 1) \o <<x>> \o SubSeq(t, i, Len(t))
       ELSE InsertSorted(Cmp, t, x, i + 1)

RECURSIVE SortFrom(_, _, _, _)
SortFrom(Cmp(_, _), s, t, i) ==
  IF i > Len(s) THEN t ELSE SortFrom(Cmp, s, InsertSorted(Cmp, t, s[i], 1), i + 1)

Sort(s, Cmp(_, _)) == SortFrom(Cmp, s, <<>>, 1)

\* new Date(b[f]) - new Date(a[f]); NaN (an unreadable date) compares as 0
DateDesc(a, b, f) ==
  LET ta == IF Has(a, f) THEN TimeOf(a[f]) ELSE -1
      tb == IF Has(b, f) THEN TimeOf(b[f]) ELSE -1
  IN IF ta < 0 \/ tb < 0 THEN 0 ELSE tb - ta

\* urgencyOrder = { high: 0, medium: 1, low: 2 }; -1: undefined
urgencyOrder(u) == IF u = "high" THEN 0 ELSE IF u = "medium" THEN 1 ELSE IF u = "low" THEN 2 ELSE -1

\* (UrgencyOnly: the comparator without its date tie-break)
UrgencyOnly(a, b) ==
  LET ua == IF Has(a, "urgency") THEN urgencyOrder(a["urgency"]) ELSE -1
      ub == IF Has(b, "urgency") THEN urgencyOrder(b["urgency"]) ELSE -1
  IN IF ua < 0 \/ ub < 0 THEN 0 ELSE ua - ub

UrgencyThenDate(a, b) ==
  LET ua == IF Has(a, "urgency") THEN urgencyOrder(a["urgency"]) ELSE -1
      ub == IF Has(b, "urgency") THEN urgencyOrder(b["urgency"]) ELSE -1
  IN IF ua < 0 \/ ub < 0 THEN 0
     ELSE IF ua - ub # 0 THEN ua - ub
     ELSE DateDesc(a, b, "dateSubmitted")

sortRequestsByUrgencyAndDate(requests) == Sort(requests, UrgencyThenDate)

\* statusOrder = { overdue: 0, upcoming: 1, current: 2 }; statusOrder[s] || 2
statusOrder(r) ==
  LET o == IF ~Has(r, "status") THEN -1
           ELSE IF r["status"] = "overdue" THEN 0
           ELSE IF r["status"] = "upcoming" THEN 1
           ELSE IF r["status"] = "current" THEN 2 ELSE -1
  IN IF o <= 0 THEN 2 ELSE o

ByStatus(a, b) == statusOrder(a) - statusOrder(b)
ByPublished(a, b) == DateDesc(a, b, "datePublished")
ByAdded(a, b) == DateDesc(a, b, "dateAdded")

Filter(s, P(_)) == SelectSeq(s, P)

\* a getter that returns a collection / a record or null, given what getData
\* returned
Listed(r, F(_)) == IF r.threw THEN RetThrew ELSE RetList(F(r.val))
Found(r, id) ==
  IF r.threw THEN RetThrew
  ELSE IF IndexOf(r.val, id) # 0 THEN RetRec(r.val[IndexOf(r.val, id)]) ELSE RetNull

Same(items) == items

getProjects(store, rt) == Listed(GetDataR(store, KEYS.PROJECTS, rt), Same)
getProjectById(store, id, rt) == Found(GetDataR(store, KEYS.PROJECTS, rt), id)

getRequests(store, rt) ==
  Listed(GetDataR(store, KEYS.REQUESTS, rt), sortRequestsByUrgencyAndDate)
getRequestsByProject(store, projectId, rt) ==
  LET F(items) ==
        sortRequestsByUrgencyAndDate(Filter(items, LAMBDA r : FieldIs(r, "projectId", projectId)))
  IN Listed(GetDataR(store, KEYS.REQUESTS, rt), F)
getUnassignedRequests(store, rt) ==
  LET F(items) == sortRequestsByUrgencyAndDate(Filter(items, LAMBDA r : Falsy(r, "projectId")))
  IN Listed(GetDataR(store, KEYS.REQUESTS, rt), F)
getRequestById(store, id, rt) == Found(GetDataR(store, KEYS.REQUESTS, rt), id)

getInProgressItems(store, rt) == Listed(GetDataR(store, KEYS.IN_PROGRESS, rt), Same)
getInProgressByProject(store, projectId, rt) ==
  LET F(items) == Filter(items, LAMBDA i : FieldIs(i, "projectId", projectId))
  IN Listed(GetDataR(store, KEYS.IN_PROGRESS, rt), F)
getUnassignedInProgress(store, rt) ==
  LET F(items) == Filter(items, LAMBDA i : Falsy(i, "projectId"))
  IN Listed(GetDataR(store, KEYS.IN_PROGRESS, rt), F)
getInProgressById(store, id, rt) == Found(GetDataR(store, KEYS.IN_PROGRESS, rt), id)

getReports(store, rt) == Listed(GetDataR(store, KEYS.REPORTS, rt), Same)
getReportsByProject(store, projectId, activeOnly, rt) ==
  LET F(items) ==
        Sort(Filter(Filter(items, LAMBDA r : FieldIs(r, "projectId", projectId)),
                    LAMBDA r : ~activeOnly \/ FieldIs(r, "isActive", TRUE)),
             ByPublished)
  IN Listed(GetDataR(store, KEYS.REPORTS, rt), F)
getUnassignedReports(store, rt) ==
  LET F(items) == Filter(items, LAMBDA r : Falsy(r, "projectId"))
  IN Listed(GetDataR(store, KEYS.REPORTS, rt), F)
getReportById(store, id, rt) == Found(GetDataR(store, KEYS.REPORTS, rt), id)

\* category / type "" stands for an omitted second argument
getDocuments(store, projectId, category, rt) ==
  LET F(items) ==
        Sort(Filter(Filter(items, LAMBDA d : FieldIs(d, "projectId", projectId)),
                    LAMBDA d : category = "" \/ FieldIs(d, "category", category)),
             ByAdded)
  IN Listed(GetDataR(store, KEYS.DOCUMENTS, rt), F)
getDocumentById(store, id, rt) == Found(GetDataR(store, KEYS.DOCUMENTS, rt), id)

getDashboardLinks(store, projectId, type, rt) ==
  LET F(items) ==
        Sort(Filter(Filter(items, LAMBDA l : FieldIs(l, "projectId", projectId)),
                    LAMBDA l : type = "" \/ FieldIs(l, "type", type)),
             ByAdded)
  IN Listed(GetDataR(store, KEYS.DASHBOARD_LINKS, rt), F)
getDashboardLinkById(store, id, rt) == Found(GetDataR(store, KEYS.DASHBOARD_LINKS, rt), id)

getControlItems(store, projectId, rt) ==
  LET F(items) == Sort(Filter(items, LAMBDA c : FieldIs(c, "projectId", projectId)), ByStatus)
  IN Listed(GetDataR(store, KEYS.CONTROL_ITEMS, rt), F)
getControlItemById(store, id, rt) == Found(GetDataR(store, KEYS.CONTROL_ITEMS, rt), id)

\* ------------------------------------------------------- calls and actions
NoArg == [none |-> TRUE]
NoOp == [name |-> "none", key |-> "", id |-> "", arg |-> NoArg, wf |-> FALSE, rt |-> FALSE, n |-> 0]
Call(name, key, id, arg, wf, rt) ==
  [name |-> name, key |-> key, id |-> id, arg |-> arg, wf |-> wf, rt |-> rt, n |-> nextId]

AddNames ==
  {"addProject", "addRequest", "addInProgressItem", "addReport", "addDocument",
   "addDashboardLink", "addControlItem"}
UpdateNames ==
  {"updateProject", "updateRequest", "updateInProgressItem", "updateInProgressStatus",
   "updateReport", "updateDocument", "updateDashboardLink", "updateControlItem"}
DeleteNames ==
  {"deleteProject", "deleteRequest", "deleteInProgressItem", "deleteReport",
   "deleteDocument", "deleteDashboardLink", "deleteControlItem"}
MutationNames == AddNames \cup UpdateNames \cup DeleteNames

\* the Store function a call names, applied to a store
Mutate(store, o) ==
  CASE o.name = "addProject" -> addProject(store, o.arg, o.n, o.wf)
    [] o.name = "updateProject" -> updateProject(store, o.id, o.arg, o.wf)
    [] o.name = "deleteProject" -> deleteProject(store, o.id, o.wf)
    [] o.name = "addRequest" -> addRequest(store, o.arg, o.n, o.wf)
    [] o.name = "updateRequest" -> updateRequest(store, o.id, o.arg, o.wf)
    [] o.name = "deleteRequest" -> deleteRequest(store, o.id, o.wf)
    [] o.name = "addInProgressItem" -> addInProgressItem(store, o.arg, o.n, o.wf)
    [] o.name = "updateInProgressItem" -> updateInProgressItem(store, o.id, o.arg, o.wf)
    [] o.name = "updateInProgressStatus" ->
         updateInProgressStatus(store, o.id, o.arg["status"], o.wf)
    [] o.name = "deleteInProgressItem" -> deleteInProgressItem(store, o.id, o.wf)
    [] o.name = "addReport" -> addReport(store, o.arg, o.n, o.wf)
    [] o.name = "updateReport" -> updateReport(store, o.id, o.arg, o.wf)
    [] o.name = "deleteReport" -> deleteReport(store, o.id, o.wf)
    [] o.name = "addDocument" -> addDocument(store, o.arg, o.n, o.wf)
    [] o.name = "updateDocument" -> updateDocument(store, o.id, o.arg, o.wf)
    [] o.name = "deleteDocument" -> deleteDocument(store, o.id, o.wf)
    [] o.name = "addDashboardLink" -> addDashboardLink(store, o.arg, o.n, o.wf)
    [] o.name = "updateDashboardLink" -> updateDashboardLink(store, o.id, o.arg, o.wf)
    [] o.name = "deleteDashboardLink" -> deleteDashboardLink(store, o.id, o.wf)
    [] o.name = "addControlItem" -> addControlItem(store, o.arg, o.n, o.wf)
    [] o.name = "updateControlItem" -> updateControlItem(store, o.id, o.arg, o.wf)
    [] o.name = "deleteControlItem" -> deleteControlItem(store, o.id, o.wf)

\* the getter a call names, applied to a store
Ask(store, o) ==
  CASE o.name = "getProjects" -> getProjects(store, o.rt)
    [] o.name = "getProjectById" -> getProjectById(store, o.id, o.rt)
    [] o.name = "getRequests" -> getRequests(store, o.rt)
    [] o.name = "getRequestsByProject" -> getRequestsByProject(store, o.id, o.rt)
    [] o.name = "getUnassignedRequests" -> getUnassignedRequests(store, o.rt)
    [] o.name = "getRequestById" -> getRequestById(store, o.id, o.rt)
    [] o.name = "getInProgressItems" -> getInProgressItems(store, o.rt)
    [] o.name = "getInProgressByProject" -> getInProgressByProject(store, o.id, o.rt)
    [] o.name = "getUnassignedInProgress" -> getUnassignedInProgress(store, o.rt)
    [] o.name = "getInProgressById" -> getInProgressById(store, o.id, o.rt)
    [] o.name = "getReports" -> getReports(store, o.rt)
    [] o.name = "getReportsByProject" -> getReportsByProject(store, o.id, FALSE, o.rt)
    [] o.name = "getUnassignedReports" -> getUnassignedReports(store, o.rt)
    [] o.name = "getReportById" -> getReportById(store, o.id, o.rt)
    [] o.name = "getDocuments" -> getDocuments(store, o.id, "", o.rt)
    [] o.name = "getDocumentById" -> getDocumentById(store, o.id, o.rt)
    [] o.name = "getDashboardLinks" -> getDashboardLinks(store, o.id, "", o.rt)
    [] o.name = "getDashboardLinkById" -> getDashboardLinkById(store, o.id, o.rt)
    [] o.name = "getControlItems" -> getControlItems(store, o.id, o.rt)
    [] o.name = "getControlItemById" -> getControlItemById(store, o.id, o.rt)

\* getter name -> the key it reads
ListGetters ==
  [getProjects |-> KEYS.PROJECTS, getRequests |-> KEYS.REQUESTS,
   getUnassignedRequests |-> KEYS.REQUESTS, getInProgressItems |-> KEYS.IN_PROGRESS,
   getUnassignedInProgress |-> KEYS.IN_PROGRESS, getReports |-> KEYS.REPORTS,
   getUnassignedReports |-> KEYS.REPORTS]
ByProjectGetters ==
  [getRequestsByProject |-> KEYS.REQUESTS, getInProgressByProject |-> KEYS.IN_PROGRESS,
   getReportsByProject |-> KEYS.REPORTS, getDocuments |-> KEYS.DOCUMENTS,
   getDashboardLinks |-> KEYS.DASHBOARD_LINKS, getControlItems |-> KEYS.CONTROL_ITEMS]
ByIdGetters ==
  [getProjectById |-> KEYS.PROJECTS, getRequestById |-> KEYS.REQUESTS,
   getInProgressById |-> KEYS.IN_PROGRESS, getReportById |-> KEYS.REPORTS,
   getDocumentById |-> KEYS.DOCUMENTS, getDashboardLinkById |-> KEYS.DASHBOARD_LINKS,
   getControlItemById |-> KEYS.CONTROL_ITEMS]

\* ---- inputs of the calls
IdsOf(store, key) == {getData(store, key)[i]["id"] : i \in 1..Len(getData(store, key))}
TargetIds(store, key) == IdsOf(store, key) \cup {"nope"}

ProjectInputs == {[name |-> " a ", divisionId |-> "d1"]}
RequestInputs ==
  {[description |-> " a ", requester |-> "b", urgency |-> "medium",
    divisionId |-> "d1", projectId |-> "p1"],
   [description |-> "a", requester |-> " b"]}
ProgressInputs ==
  {[taskDescription |-> "a", requester |-> "b", status |-> "in-review",
    targetCompletionDate |-> Stamp(5), divisionId |-> "d1", projectId |-> "p1"],
   [taskDescription |-> " a ", requester |-> "b"]}
ReportInputs ==
  {[title |-> " a ", datePublished |-> Stamp(2), description |-> " b", linkUrl |-> "a",
    isActive |-> FALSE, divisionId |-> "d1", projectId |-> "p1", category |-> "pricing"],
   [title |-> "a", datePublished |-> Stamp(2)]}
DocumentInputs ==
  {[projectId |-> "p1", category |-> "legal", title |-> " a ", source |-> "client-email"],
   [projectId |-> "p1", title |-> "a"]}
LinkInputs ==
  {[projectId |-> "p1", title |-> "a", url |-> " b", type |-> "valuation"],
   [projectId |-> "p1", title |-> "a"]}
ControlInputs ==
  {[projectId |-> "p1", title |-> "a", status |-> "upcoming", frequency |-> "weekly"],
   [projectId |-> "p1", title |-> " a "]}

Updates(key) ==
  IF key = KEYS.PROJECTS THEN {[isActive |-> FALSE]}
  ELSE IF key = KEYS.REQUESTS THEN {[urgency |-> "high", description |-> "b"], [id |-> "r2"]}
  ELSE IF key = KEYS.IN_PROGRESS THEN {[taskDescription |-> "b"]}
  ELSE IF key = KEYS.REPORTS THEN {[isActive |-> FALSE]}
  ELSE IF key = KEYS.CONTROL_ITEMS THEN {[status |-> "current", lastCompleted |-> Stamp(2)]}
  ELSE {[title |-> "b"]}

\* whether setItem may throw in this call: only a call that reaches saveData
WriteOutcomes(attempted) == IF attempted THEN BOOLEAN ELSE {FALSE}

\* a Store mutation called by an event handler
Do(o, usesId) ==
  /\ pc = "ready"
  /\ opsLeft > 0
  /\ ls' = Mutate(ls, o).store
  /\ ret' = Mutate(ls, o).ret
  /\ op' = o
  /\ nextId' = IF usesId THEN nextId + 1 ELSE nextId
  /\ opsLeft' = opsLeft - 1
  /\ UNCHANGED <<migVars, routerVars>>

AddOp(name, key, inputs) ==
  \E d \in inputs, wf \in BOOLEAN : Do(Call(name, key, "", d, wf, FALSE), TRUE)
UpdateOp(name, key) ==
  \E id \in TargetIds(ls, key), u \in Updates(key) :
    \E wf \in WriteOutcomes(id \in IdsOf(ls, key)) : Do(Call(name, key, id, u, wf, FALSE), FALSE)
DeleteOp(name, key) ==
  \E id \in TargetIds(ls, key), wf \in BOOLEAN : Do(Call(name, key, id, NoArg, wf, FALSE), FALSE)

AddProject == AddOp("addProject", KEYS.PROJECTS, ProjectInputs)
UpdateProject == UpdateOp("updateProject", KEYS.PROJECTS)
DeleteProject == DeleteOp("deleteProject", KEYS.PROJECTS)
AddRequest == AddOp("addRequest", KEYS.REQUESTS, RequestInputs)
UpdateRequest == UpdateOp("updateRequest", KEYS.REQUESTS)
DeleteRequest == DeleteOp("deleteRequest", KEYS.REQUESTS)
AddInProgressItem == AddOp("addInProgressItem", KEYS.IN_PROGRESS, ProgressInputs)
UpdateInProgressItem == UpdateOp("updateInProgressItem", KEYS.IN_PROGRESS)
UpdateInProgressStatus ==
  \E id \in TargetIds(ls, KEYS.IN_PROGRESS) :
    \E wf \in WriteOutcomes(id \in IdsOf(ls, KEYS.IN_PROGRESS)) :
      Do(Call("updateInProgressStatus", KEYS.IN_PROGRESS, id, [status |-> "in-progress"],
              wf, FALSE), FALSE)
DeleteInProgressItem == DeleteOp("deleteInProgressItem", KEYS.IN_PROGRESS)
AddReport == AddOp("addReport", KEYS.REPORTS, ReportInputs)
UpdateReport == UpdateOp("updateReport", KEYS.REPORTS)
DeleteReport == DeleteOp("deleteReport", KEYS.REPORTS)
AddDocument == AddOp("addDocument", KEYS.DOCUMENTS, DocumentInputs)
UpdateDocument == UpdateOp("updateDocument", KEYS.DOCUMENTS)
DeleteDocument == DeleteOp("deleteDocument", KEYS.DOCUMENTS)
AddDashboardLink == AddOp("addDashboardLink", KEYS.DASHBOARD_LINKS, LinkInputs)
UpdateDashboardLink == UpdateOp("updateDashboardLink", KEYS.DASHBOARD_LINKS)
DeleteDashboardLink == DeleteOp("deleteDashboardLink", KEYS.DASHBOARD_LINKS)
AddControlItem == AddOp("addControlItem", KEYS.CONTROL_ITEMS, ControlInputs)
UpdateControlItem == UpdateOp("updateControlItem", KEYS.CONTROL_ITEMS)
DeleteControlItem == DeleteOp("deleteControlItem", KEYS.CONTROL_ITEMS)

\* a getter called by a render; rt: getItem throws
Query(o) ==
  /\ pc = "ready"
  /\ opsLeft > 0
  /\ ret' = Ask(ls, o)
  /\ op' = o
  /\ opsLeft' = opsLeft - 1
  /\ UNCHANGED <<ls, nextId, migVars, routerVars>>

QueryList ==
  \E g \in DOMAIN ListGetters, rt \in BOOLEAN :
    Query(Call(g, ListGetters[g], "", NoArg, FALSE, rt))
QueryByProject ==
  \E g \in DOMAIN ByProjectGetters, rt \in BOOLEAN :
    Query(Call(g, ByProjectGetters[g], "p1", NoArg, FALSE, rt))
QueryById ==
  \E g \in DOMAIN ByIdGetters, rt \in BOOLEAN :
    \E id \in TargetIds(ls, ByIdGetters[g]) :
      Query(Call(g, ByIdGetters[g], id, NoArg, FALSE, rt))

\* ---- the stores the Store calls start from (schema 2, migration done)
MainStore ==
  [k \in AllKeys |->
     IF k = KEYS.PROJECTS
     THEN Arr(<<[id |-> "p1", name |-> "a", divisionId |-> "d1", isActive |-> TRUE,
                 dateCreated |-> Stamp(0)],
                [id |-> "p2", name |-> "b", divisionId |-> "d2", isActive |-> TRUE,
                 dateCreated |-> Stamp(0)]>>)
     ELSE IF k = KEYS.REQUESTS
     THEN Arr(<<[id |-> "r1", description |-> "a", requester |-> "b", urgency |-> "low",
                 divisionId |-> "d1", projectId |-> "p1", dateSubmitted |-> Stamp(1)],
                [id |-> "r2", description |-> "b", requester |-> "b", urgency |-> "high",
                 divisionId |-> NULL, projectId |-> NULL, dateSubmitted |-> Stamp(2)]>>)
     ELSE IF k = KEYS.IN_PROGRESS
     THEN Arr(<<[id |-> "i1", taskDescription |-> "a", requester |-> "b",
                 status |-> "not-started", targetCompletionDate |-> NULL,
                 divisionId |-> "d1", projectId |-> "p1", dateCreated |-> Stamp(1)]>>)
     ELSE IF k = KEYS.REPORTS
     THEN Arr(<<[id |-> "rp1", title |-> "a", datePublished |-> Stamp(1), description |-> "",
                 linkUrl |-> "", isActive |-> TRUE, divisionId |-> "d1", projectId |-> "p1",
                 category |-> "legal"]>>)
     ELSE IF k = KEYS.DOCUMENTS
     THEN Arr(<<[id |-> "doc1", projectId |-> "p1", category |-> "legal", title |-> "a",
                 description |-> "", linkUrl |-> "", source |-> "manual",
                 dateAdded |-> Stamp(1), datePublished |-> NULL]>>)
     ELSE IF k = KEYS.CONTROL_ITEMS
     THEN Arr(<<[id |-> "c1", projectId |-> "p1", title |-> "a", description |-> "",
                 assignee |-> "", frequency |-> "monthly", lastCompleted |-> NULL,
                 nextDue |-> NULL, status |-> "overdue", dateCreated |-> Stamp(1)]>>)
     ELSE IF k = KEYS.DASHBOARD_LINKS THEN Arr(<<>>)
     ELSE Absent]

\* a store whose requests and control items are out of their display order
SortingStore ==
  [k \in AllKeys |->
     IF k = KEYS.PROJECTS
     THEN Arr(<<[id |-> "p1", name |-> "a", divisionId |-> "d1", isActive |-> TRUE,
                 dateCreated |-> Stamp(0)]>>)
     ELSE IF k = KEYS.REQUESTS
     THEN Arr(<<[id |-> "r1", description |-> "a", requester |-> "b", urgency |-> "low",
                 divisionId |-> "d1", projectId |-> "p1", dateSubmitted |-> Stamp(2)],
                [id |-> "r2", description |-> "b", requester |-> "b", urgency |-> "high",
                 divisionId |-> "d1", projectId |-> "p1", dateSubmitted |-> Stamp(0)],
                [id |-> "r3", description |-> "a", requester |-> "b", urgency |-> "medium",
                 divisionId |-> NULL, projectId |-> NULL, dateSubmitted |-> Stamp(1)],
                [id |-> "r4", description |-> "b", requester |-> "b", urgency |-> "high",
                 divisionId |-> "d1", projectId |-> "p1", dateSubmitted |-> Stamp(2)]>>)
     ELSE IF k = KEYS.CONTROL_ITEMS
     THEN Arr(<<[id |-> "c1", projectId |-> "p1", title |-> "a", description |-> "",
                 assignee |-> "", frequency |-> "monthly", lastCompleted |-> NULL,
                 nextDue |-> NULL, status |-> "upcoming", dateCreated |-> Stamp(1)],
                [id |-> "c2", projectId |-> "p1", title |-> "b", description |-> "",
                 assignee |-> "", frequency |-> "weekly", lastCompleted |-> NULL,
                 nextDue |-> NULL, status |-> "overdue", dateCreated |-> Stamp(2)]>>)
     ELSE IF k = LEGACY_CLIENTS THEN Absent
     ELSE Arr(<<>>)]

UnreadableStore == [k \in AllKeys |-> IF k = LEGACY_CLIENTS THEN Absent ELSE Corrupt]

FirstFreeId == 3

\* ------------------------------------------------- the schema-v1 Store's queries
\* The v1 Store keeps the projects under the legacy clients key and the
\* foreign key in clientId; its getData, comparators and filters are those of
\* the v2 Store.
getClientById(store, id) == Found(GetDataR(store, LEGACY_CLIENTS, FALSE), id)
getRequestsByClient(store, clientId) ==
  LET F(items) ==
        sortRequestsByUrgencyAndDate(Filter(items, LAMBDA r : FieldIs(r, "clientId", clientId)))
  IN Listed(GetDataR(store, KEYS.REQUESTS, FALSE), F)
getUnassignedRequestsV1(store) ==
  LET F(items) == sortRequestsByUrgencyAndDate(Filter(items, LAMBDA r : Falsy(r, "clientId")))
  IN Listed(GetDataR(store, KEYS.REQUESTS, FALSE), F)
getInProgressByClient(store, clientId) ==
  LET F(items) == Filter(items, LAMBDA i : FieldIs(i, "clientId", clientId))
  IN Listed(GetDataR(store, KEYS.IN_PROGRESS, FALSE), F)
getUnassignedInProgressV1(store) ==
  LET F(items) == Filter(items, LAMBDA i : Falsy(i, "clientId"))
  IN Listed(GetDataR(store, KEYS.IN_PROGRESS, FALSE), F)
getReportsByClient(store, clientId, activeOnly) ==
  LET F(items) ==
        Sort(Filter(Filter(items, LAMBDA r : FieldIs(r, "clientId", clientId)),
                    LAMBDA r : ~activeOnly \/ FieldIs(r, "isActive", TRUE)),
             ByPublished)
  IN Listed(GetDataR(store, KEYS.REPORTS, FALSE), F)
getUnassignedReportsV1(store) ==
  LET F(items) == Filter(items, LAMBDA r : Falsy(r, "clientId"))
  IN Listed(GetDataR(store, KEYS.REPORTS, FALSE), F)
getDocumentsV1(store, clientId, category) ==
  LET F(items) ==
        Sort(Filter(Filter(items, LAMBDA d : FieldIs(d, "clientId", clientId)),
                    LAMBDA d : category = "" \/ FieldIs(d, "category", category)),
             ByAdded)
  IN Listed(GetDataR(store, KEYS.DOCUMENTS, FALSE), F)
getDashboardLinksV1(store, clientId, type) ==
  LET F(items) ==
        Sort(Filter(Filter(items, LAMBDA l : FieldIs(l, "clientId", clientId)),
                    LAMBDA l : type = "" \/ FieldIs(l, "type", type)),
             ByAdded)
  IN Listed(GetDataR(store, KEYS.DASHBOARD_LINKS, FALSE), F)
getControlItemsV1(store, clientId) ==
  LET F(items) == Sort(Filter(items, LAMBDA c : FieldIs(c, "clientId", clientId)), ByStatus)
  IN Listed(GetDataR(store, KEYS.CONTROL_ITEMS, FALSE), F)

\* ================================================================ ROUTER
\* AppRouter (js/router.js)
UNDEFINED == "undefined"
Field(r, f) == IF Has(r, f) THEN r[f] ELSE UNDEFINED

InitialState ==
  [currentView |-> "home",
   selectedDivisionId |-> NULL,
   selectedProjectId |-> NULL,
   activeZone |-> 1,
   expandedDivisions |-> <<>>,
   globalSearchTerm |-> "",
   reportsSearchTerm |-> "",
   showActiveProjectsOnly |-> TRUE]

Includes(list, x) == \E i \in 1..Len(list) : list[i] = x
\* Array.prototype.indexOf, 0 for -1
FirstIndexOf(list, x) ==
  IF Includes(list, x)
  THEN CHOOSE i \in 1..Len(list) : list[i] = x /\ \A j \in 1..(i - 1) : list[j] # x
  ELSE 0
\* splice(idx, 1)
Splice(list, idx) == SubSeq(list, 1, idx - 1) \o SubSeq(list, idx + 1, Len(list))

\* each Router function: the state it leaves and the render callbacks it invokes
\* (RoutedTwice: triggerRender runs the callback twice)
RoutedTwice(st, n) == [state |-> st, renders |-> 2 * n]

Routed(st, n) == [state |-> st, renders |-> n]

navigate(st, view, params) ==
  Routed(With([st EXCEPT !.currentView = view], params), 1)

\* (a selectProject without its guard)
selectProjectUnguarded(st, store, projectId) ==
  LET found == getProjectById(store, projectId, FALSE)
      divisionId == IF found.t = "rec" THEN Field(found.v, "divisionId") ELSE UNDEFINED
  IN Routed([st EXCEPT !.currentView = "project",
                       !.selectedProjectId = projectId,
                       !.selectedDivisionId = divisionId,
                       !.activeZone = 1,
                       !.reportsSearchTerm = "",
                       !.expandedDivisions = IF Includes(@, divisionId) THEN @
                                             ELSE Append(@, divisionId)], 1)

\* (a selectProject that pushes the division without looking for it)
selectProjectPushing(st, store, projectId) ==
  LET found == getProjectById(store, projectId, FALSE)
  IN IF found.t # "rec" THEN Routed(st, 0)
     ELSE LET divisionId == Field(found.v, "divisionId")
          IN Routed([st EXCEPT !.currentView = "project",
                               !.selectedProjectId = projectId,
                               !.selectedDivisionId = divisionId,
                               !.activeZone = 1,
                               !.reportsSearchTerm = "",
                               !.expandedDivisions = Append(@, divisionId)], 1)

selectProject(st, store, projectId) ==
  LET found == getProjectById(store, projectId, FALSE)
  IN IF found.t # "rec" THEN Routed(st, 0)
     ELSE LET divisionId == Field(found.v, "divisionId")
          IN Routed([st EXCEPT !.currentView = "project",
                               !.selectedProjectId = projectId,
                               !.selectedDivisionId = divisionId,
                               !.activeZone = 1,
                               !.reportsSearchTerm = "",
                               !.expandedDivisions = IF Includes(@, divisionId) THEN @
                                                     ELSE Append(@, divisionId)], 1)

\* (a setActiveZone that keeps the reports search)
setActiveZoneKeepingSearch(st, zoneNumber) ==
  Routed([st EXCEPT !.activeZone = zoneNumber], 1)

setActiveZone(st, zoneNumber) ==
  Routed([st EXCEPT !.activeZone = zoneNumber, !.reportsSearchTerm = ""], 1)

\* (a toggleDivision that only ever expands)
toggleDivisionExpanding(st, divisionId) ==
  Routed([st EXCEPT !.expandedDivisions = Append(@, divisionId)], 1)

toggleDivision(st, divisionId) ==
  LET idx == FirstIndexOf(st.expandedDivisions, divisionId)
  IN Routed([st EXCEPT !.expandedDivisions = IF idx = 0 THEN Append(@, divisionId)
                                             ELSE Splice(@, idx)], 1)

setGlobalSearch(st, term) == Routed([st EXCEPT !.globalSearchTerm = term], 1)
setReportsSearch(st, term) == Routed([st EXCEPT !.reportsSearchTerm = term], 1)
setActiveProjectsOnly(st, value) == Routed([st EXCEPT !.showActiveProjectsOnly = value], 1)

\* (a goHome that also collapses the sidebar)
goHomeCollapsing(st) ==
  Routed([st EXCEPT !.currentView = "home",
                    !.selectedProjectId = NULL,
                    !.selectedDivisionId = NULL,
                    !.activeZone = 1,
                    !.expandedDivisions = <<>>,
                    !.globalSearchTerm = "",
                    !.reportsSearchTerm = ""], 1)

goHome(st) ==
  Routed([st EXCEPT !.currentView = "home",
                    !.selectedProjectId = NULL,
                    !.selectedDivisionId = NULL,
                    !.activeZone = 1,
                    !.globalSearchTerm = "",
                    !.reportsSearchTerm = ""], 1)

\* ---- the Router calls the event handlers make
RouterCall(name, id, arg) ==
  [name |-> name, key |-> "", id |-> id, arg |-> arg, wf |-> FALSE, rt |-> FALSE, n |-> 0]

\* the render callback (app.js render): it reads the state, and in the project
\* view of a project the Store no longer has, renderProjectView calls goHome,
\* whose triggerRender runs the callback again. The result: the states the
\* callbacks saw, in order.
Render(store, st) ==
  IF st.currentView = "project" /\ getProjectById(store, st.selectedProjectId, FALSE).t # "rec"
  THEN <<st>> \o [i \in 1..goHome(st).renders |-> goHome(st).state]
  ELSE <<st>>

RECURSIVE Renders(_, _, _)
Renders(store, st, n) ==
  IF n = 0 THEN <<>>
  ELSE LET seen == Render(store, st)
       IN seen \o Renders(store, seen[Len(seen)], n - 1)

\* the search inputs and their debounce timers. #global-search is one element
\* for the life of the page, bound once in bindEvents; #reports-search is
\* written again, with the Router's reportsSearchTerm as its value, by every
\* render of zone 1 of the project view, and bound again with a debounce of
\* its own. timers holds the pending setTimeout callbacks, oldest first (all
\* have the same delay): a live one reads the value its input has when it
\* fires, one whose input a render replaced reads the value that input kept.
\* typedG and typedR record history: a keystroke in the input came after the
\* Router call that last emptied the term.
InitialBoxes ==
  [global |-> "", reports |-> "", timers |-> <<>>, typedG |-> FALSE, typedR |-> FALSE]

Timer(box, live, value) == [box |-> box, live |-> live, value |-> value]
HasReportsBox(st) == st.currentView = "project" /\ st.activeZone = 1
Without(timers, box) == SelectSeq(timers, LAMBDA t : ~(t.box = box /\ t.live))

\* the calls that empty a search term
Navigated(bx, o, n) ==
  IF n = 0 THEN bx
  ELSE [bx EXCEPT !.typedG = IF o.name = "goHome" THEN FALSE ELSE @,
                  !.typedR = IF o.name \in {"setActiveZone", "selectProject", "goHome"}
                             THEN FALSE ELSE @]

\* a render replaces the main content, and with it the reports input
Rerendered(bx, st, seen) ==
  IF seen = <<>> THEN bx
  ELSE [bx EXCEPT !.reports = IF HasReportsBox(st) THEN st.reportsSearchTerm ELSE "",
                  !.timers = [i \in 1..Len(@) |->
                                IF @[i].box = "reports" /\ @[i].live
                                THEN Timer("reports", FALSE, bx.reports) ELSE @[i]]]

Routing(bx, o, result) ==
  LET seen == Renders(ls, result.state, result.renders)
  IN /\ pc = "ready"
     /\ state' = IF seen = <<>> THEN result.state ELSE seen[Len(seen)]
     /\ renders' = seen
     /\ boxes' = Rerendered(Navigated(bx, o, result.renders), state', seen)
     /\ op' = o
     /\ ret' = RetNull
     /\ UNCHANGED <<ls, nextId, opsLeft, migVars>>

Route(o, result) == Routing(boxes, o, result)

\* an input event: debounce's executedFunction clears the timer it set before
\* and sets a new one
Typed == {"a", " b"}
Keystroke(box, v) ==
  /\ pc = "ready"
  /\ Len(Without(boxes.timers, box)) < MaxTimers
  /\ boxes' = [boxes EXCEPT ![box] = v,
                            !.timers = Append(Without(@, box), Timer(box, TRUE, "")),
                            !.typedG = IF box = "global" THEN TRUE ELSE @,
                            !.typedR = IF box = "reports" THEN TRUE ELSE @]
  /\ op' = RouterCall("input", box, [value |-> v])
  /\ ret' = RetNull
  /\ renders' = <<>>
  /\ UNCHANGED <<state, ls, nextId, opsLeft, migVars>>
TypeGlobal == \E v \in Typed : Keystroke("global", v)
TypeReports == \E v \in Typed : HasReportsBox(state) /\ Keystroke("reports", v)

\* the oldest timer fires: later() calls the handler with the event it kept,
\* and the handler reads e.target.value
Expire ==
  /\ boxes.timers # <<>>
  /\ LET t == Head(boxes.timers)
         value == IF t.live THEN boxes[t.box] ELSE t.value
         rest == [boxes EXCEPT !.timers = Tail(@)]
     IN IF t.box = "global"
        THEN Routing(rest, RouterCall("setGlobalSearch", "", [term |-> Trim(value)]),
                     setGlobalSearch(state, Trim(value)))
        ELSE Routing(rest, RouterCall("setReportsSearch", "", [term |-> Trim(value)]),
                     setReportsSearch(state, Trim(value)))

ProjectIdsAsked == {"p1", "p2", "nope"}
DivisionIds == {"d1", "d2"}
Zones == {1, 2}
Terms == {"", "a"}
NavigateParams == {<<>>, [activeZone |-> 2]}

Navigate ==
  \E params \in NavigateParams :
    Route(RouterCall("navigate", "manage-projects", [params |-> params]),
          navigate(state, "manage-projects", params))
SelectProject ==
  \E id \in ProjectIdsAsked \cup IdsOf(ls, KEYS.PROJECTS) :
    Route(RouterCall("selectProject", id, NoArg), selectProject(state, ls, id))
SetActiveZone ==
  \E z \in Zones :
    Route(RouterCall("setActiveZone", "", [zoneNumber |-> z]), setActiveZone(state, z))
ToggleDivision ==
  \E d \in DivisionIds :
    Route(RouterCall("toggleDivision", d, NoArg), toggleDivision(state, d))
SetGlobalSearch ==
  \E t \in Terms :
    Route(RouterCall("setGlobalSearch", "", [term |-> t]), setGlobalSearch(state, t))
SetReportsSearch ==
  \E t \in Terms :
    Route(RouterCall("setReportsSearch", "", [term |-> t]), setReportsSearch(state, t))
SetActiveProjectsOnly ==
  \E v \in BOOLEAN :
    Route(RouterCall("setActiveProjectsOnly", "", [value |-> v]), setActiveProjectsOnly(state, v))
GoHome == Route(RouterCall("goHome", "", NoArg), goHome(state))

\* ========================================================== SPECIFICATIONS
InitWith(budget) ==
  /\ ls \in InitialStores
  /\ marker \in 0..SCHEMA_VERSION
  /\ pc = "start"
  /\ cv = 0
  /\ ki = 1
  /\ ls0 = ls
  /\ marker0 = marker
  /\ pre2 = ls
  /\ after1 = <<ls, marker>>
  /\ runs = 0
  /\ interrupted = FALSE
  /\ faultsLeft = budget
  /\ op = NoOp
  /\ ret = RetNull
  /\ nextId = 0
  /\ opsLeft = 0
  /\ state = InitialState
  /\ renders = <<>>
  /\ boxes = InitialBoxes

\* Spec: every backing-store write succeeds; SpecFaulty: up to MaxFaults fail
Init == InitWith(0)
InitFaulty == InitWith(MaxFaults)

Next ==
  \/ MigStart
  \/ MigS1Loop
  \/ MigS1Category
  \/ MigS1ClientsSet
  \/ MigS1ClientsRemove
  \/ MigS1Init
  \/ MigS1Version
  \/ MigS2Loop
  \/ MigS2ClientsSet
  \/ MigS2ClientsRemove
  \/ MigS2Version
  \/ Reload
  \/ Interrupt

Spec == Init /\ [][Next]_vars
SpecFaulty == InitFaulty /\ [][Next]_vars

\* SpecStore: the Store's functions called on a migrated store
InitStore ==
  /\ ls \in {MainStore, SortingStore, UnreadableStore}
  /\ marker = SCHEMA_VERSION
  /\ pc = "ready"
  /\ cv = SCHEMA_VERSION
  /\ ki = 1
  /\ ls0 = ls
  /\ marker0 = marker
  /\ pre2 = ls
  /\ after1 = <<ls, marker>>
  /\ runs = 1
  /\ interrupted = FALSE
  /\ faultsLeft = 0
  /\ op = NoOp
  /\ ret = RetNull
  /\ nextId = FirstFreeId
  /\ opsLeft = MaxOps
  /\ state = InitialState
  /\ renders = <<>>
  /\ boxes = InitialBoxes

NextStore ==
  \/ AddProject
  \/ UpdateProject
  \/ DeleteProject
  \/ AddRequest
  \/ UpdateRequest
  \/ DeleteRequest
  \/ AddInProgressItem
  \/ UpdateInProgressItem
  \/ UpdateInProgressStatus
  \/ DeleteInProgressItem
  \/ AddReport
  \/ UpdateReport
  \/ DeleteReport
  \/ AddDocument
  \/ UpdateDocument
  \/ DeleteDocument
  \/ AddDashboardLink
  \/ UpdateDashboardLink
  \/ DeleteDashboardLink
  \/ AddControlItem
  \/ UpdateControlItem
  \/ DeleteControlItem
  \/ QueryList
  \/ QueryByProject
  \/ QueryById

SpecStore == InitStore /\ [][NextStore]_vars

\* ---- the project manager's handlers (app.js renderProjectManager); its
\* form and buttons exist while the manager view is shown
SubmitAddProject ==
  /\ state.currentView = "manage-projects"
  /\ \E d \in ProjectInputs :
       Do(Call("addProject", KEYS.PROJECTS, "", d, FALSE, FALSE), TRUE)

\* (variant: the delete button within reach in every view)
ClickDeleteProjectAnywhere ==
  \E id \in IdsOf(ls, KEYS.PROJECTS) :
    /\ getProjectById(ls, id, FALSE).t = "rec"
    /\ Do(Call("deleteProject", KEYS.PROJECTS, id, NoArg, FALSE, FALSE), FALSE)

\* the handler looks the project up and asks for confirmation first
ClickDeleteProject ==
  /\ state.currentView = "manage-projects"
  /\ \E id \in IdsOf(ls, KEYS.PROJECTS) :
       /\ getProjectById(ls, id, FALSE).t = "rec"
       /\ Do(Call("deleteProject", KEYS.PROJECTS, id, NoArg, FALSE, FALSE), FALSE)

\* SpecRouter: the Router's functions, with projects added and deleted in the
\* project manager
InitRouter ==
  /\ ls = MainStore
  /\ marker = SCHEMA_VERSION
  /\ pc = "ready"
  /\ cv = SCHEMA_VERSION
  /\ ki = 1
  /\ ls0 = ls
  /\ marker0 = marker
  /\ pre2 = ls
  /\ after1 = <<ls, marker>>
  /\ runs = 1
  /\ interrupted = FALSE
  /\ faultsLeft = 0
  /\ op = NoOp
  /\ ret = RetNull
  /\ nextId = FirstFreeId
  /\ opsLeft = MaxProjectOps
  /\ state = InitialState
  /\ renders = <<>>
  /\ boxes = InitialBoxes

NextRouter ==
  \/ Navigate
  \/ SelectProject
  \/ SetActiveZone
  \/ ToggleDivision
  \/ SetGlobalSearch
  \/ SetReportsSearch
  \/ SetActiveProjectsOnly
  \/ GoHome
  \/ SubmitAddProject
  \/ ClickDeleteProject

SpecRouter == InitRouter /\ [][NextRouter]_vars

\* ---- getState and what a caller does with the object it returns
\* { ...state }: a new object with the same property values; a property whose
\* value is an array holds the very array the Router's state holds
getState(st) == [value |-> st, shared |-> {"expandedDivisions"}]

\* the Router's state after the caller pushed x onto got.value[f]
PushedThrough(st, got, f, x) ==
  IF f \in got.shared THEN [st EXCEPT ![f] = Append(@, x)] ELSE st

\* a caller assigns a property of the returned object
CallerAssigns ==
  /\ pc = "ready"
  /\ \E view \in {"project", "home"} :
       op' = RouterCall("getState", "currentView", [assigned |-> view])
  /\ state' = state
  /\ renders' = <<>>
  /\ ret' = RetNull
  /\ UNCHANGED <<ls, nextId, opsLeft, migVars, boxes>>

\* a caller pushes onto the returned object's expandedDivisions
CallerPushes ==
  /\ pc = "ready"
  /\ Len(state.expandedDivisions) < MaxExpanded
  /\ \E d \in DivisionIds :
       /\ op' = RouterCall("getState", "expandedDivisions", [pushed |-> d])
       /\ state' = PushedThrough(state, getState(state), "expandedDivisions", d)
  /\ renders' = <<>>
  /\ ret' = RetNull
  /\ UNCHANGED <<ls, nextId, opsLeft, migVars, boxes>>

\* SpecCaller: the Router's functions and a caller that changes what getState
\* returned
InitCaller == InitRouter

NextCaller ==
  \/ CallerAssigns
  \/ CallerPushes
  \/ ToggleDivision
  \/ SelectProject
  \/ SetActiveZone
  \/ GoHome

SpecCaller == InitCaller /\ [][NextCaller]_vars

\* SpecPromote: the promote button of a request card. The handler copies the
\* request into the in-progress collection and then deletes the request: two
\* writes of the backing store, each of which may fail, with a position
\* between them where the process may stop.
\* the zone shows the requests of its client, which the handler passes on as
\* clientId; request.projectName is undefined
PromotedFrom(request) ==
  With([taskDescription |-> request["description"],
        requester |-> request["requester"],
        status |-> "not-started",
        targetCompletionDate |-> NULL,
        clientId |-> Field(request, "projectId")],
       Copy(request, "divisionId"))

PromoteClicked ==
  /\ pc = "ready"
  /\ opsLeft > 0
  /\ \E id \in TargetIds(ls, KEYS.REQUESTS), wf \in BOOLEAN :
       LET request == getRequestById(ls, id, FALSE)
       IN IF request.t = "rec"
          THEN LET o == Call("promote", KEYS.REQUESTS, id, PromotedFrom(request.v), wf, FALSE)
                   added == addInProgressItem(ls, o.arg, o.n, o.wf)
               IN /\ ls' = added.store
                  /\ ret' = added.ret
                  /\ op' = o
                  /\ nextId' = nextId + 1
                  /\ pc' = "promoting"
          ELSE /\ wf = FALSE
               /\ op' = Call("promote", KEYS.REQUESTS, id, NoArg, FALSE, FALSE)
               /\ ret' = RetNull
               /\ UNCHANGED <<ls, nextId, pc>>
  /\ opsLeft' = opsLeft - 1
  /\ UNCHANGED <<marker, cv, ki, ls0, marker0, pre2, after1, runs, interrupted, faultsLeft,
                 routerVars>>

PromoteDeletes ==
  /\ pc = "promoting"
  /\ \E wf \in BOOLEAN :
       LET o == Call("deleteRequest", KEYS.REQUESTS, op.id, NoArg, wf, FALSE)
       IN /\ ls' = deleteRequest(ls, o.id, o.wf).store
          /\ ret' = deleteRequest(ls, o.id, o.wf).ret
          /\ op' = o
  /\ pc' = "ready"
  /\ UNCHANGED <<marker, cv, ki, ls0, marker0, pre2, after1, runs, interrupted, faultsLeft,
                 nextId, opsLeft, routerVars>>

\* the process stops after the first write; the page is loaded again
PromoteStopped ==
  /\ pc = "promoting"
  /\ pc' = "ready"
  /\ interrupted' = TRUE
  /\ UNCHANGED <<ls, marker, cv, ki, ls0, marker0, pre2, after1, runs, faultsLeft,
                 storeVars, routerVars>>

InitPromote == InitStore

NextPromote ==
  \/ PromoteClicked
  \/ PromoteDeletes
  \/ PromoteStopped

SpecPromote == InitPromote /\ [][NextPromote]_vars

\* SpecDebounce: keystrokes in the two search inputs, their timers, and the
\* navigation that empties the terms
InitDebounce == InitRouter

NextDebounce ==
  \/ TypeGlobal
  \/ TypeReports
  \/ Expire
  \/ SetActiveZone
  \/ SelectProject
  \/ GoHome

SpecDebounce == InitDebounce /\ [][NextDebounce]_vars

\* ============================================== CROSS-CUTTING UTILITIES
\* filterBySearchTerm works on the characters of its strings: here a text is
\* a sequence of characters.
Chars == {"a", "A", "b"}
ToLowerChar(c) == IF c = "A" THEN "a" ELSE IF c = "B" THEN "b" ELSE c
toLowerCase(text) == [i \in 1..Len(text) |-> ToLowerChar(text[i])]
\* String.prototype.includes
includes(text, term) ==
  \E k \in 0..(Len(text) - Len(term)) : SubSeq(text, k + 1, k + Len(term)) = term

\* (a filter that compares the characters as they are)
filterBySearchTermExact(items, searchTerm, fields) ==
  IF searchTerm = <<>> THEN items
  ELSE SelectSeq(items, LAMBDA item :
         \E n \in 1..Len(fields) :
           /\ Has(item, fields[n])
           /\ item[fields[n]] # <<>>
           /\ includes(item[fields[n]], searchTerm))

filterBySearchTerm(items, searchTerm, fields) ==
  IF searchTerm = <<>> THEN items
  ELSE LET term == toLowerCase(searchTerm)
       IN SelectSeq(items, LAMBDA item :
            \E n \in 1..Len(fields) :
              /\ Has(item, fields[n])
              /\ item[fields[n]] # <<>>
              /\ includes(toLowerCase(item[fields[n]]), term))

\* ---- the inputs of filterBySearchTerm
RECURSIVE TextsUpTo(_)
TextsUpTo(n) ==
  IF n = 0 THEN {<<>>}
  ELSE TextsUpTo(n - 1) \cup {Append(t, c) : t \in TextsUpTo(n - 1), c \in Chars}

SearchItems ==
  {[title |-> <<"A", "b">>],
   [title |-> <<"b", "a">>, description |-> <<"A", "A", "b">>],
   [title |-> <<>>, description |-> <<"a">>],
   [description |-> <<"b">>]}

RECURSIVE ListsUpTo(_, _)
ListsUpTo(S, n) ==
  IF n = 0 THEN {<<>>}
  ELSE ListsUpTo(S, n - 1) \cup {Append(l, x) : l \in ListsUpTo(S, n - 1), x \in S}

SearchFields == {<<"title">>, <<"title", "description">>}

\* SpecFilter: filterBySearchTerm applied to one input
InitFilter ==
  /\ ls = UnreadableStore
  /\ marker = SCHEMA_VERSION
  /\ pc = "filter"
  /\ cv = SCHEMA_VERSION
  /\ ki = 1
  /\ ls0 = ls
  /\ marker0 = marker
  /\ pre2 = ls
  /\ after1 = <<ls, marker>>
  /\ runs = 1
  /\ interrupted = FALSE
  /\ faultsLeft = 0
  /\ \E items \in ListsUpTo(SearchItems, MaxItems), term \in TextsUpTo(MaxTerm),
        fields \in SearchFields :
       op = [name |-> "filterBySearchTerm", key |-> "", id |-> "",
             arg |-> [items |-> items, term |-> term, fields |-> fields],
             wf |-> FALSE, rt |-> FALSE, n |-> 0]
  /\ ret = RetNull
  /\ nextId = 0
  /\ opsLeft = 0
  /\ state = InitialState
  /\ renders = <<>>
  /\ boxes = InitialBoxes

FilterBySearchTerm ==
  /\ pc = "filter"
  /\ pc' = "filtered"
  /\ ret' = RetList(filterBySearchTerm(op.arg.items, op.arg.term, op.arg.fields))
  /\ UNCHANGED <<ls, marker, cv, ki, ls0, marker0, pre2, after1, runs, interrupted,
                 faultsLeft, op, nextId, opsLeft, routerVars>>

NextFilter == FilterBySearchTerm

SpecFilter == InitFilter /\ [][NextFilter]_vars

\* ================================================== MIGRATION: THE CLAIMS
MigratedKeys == {KEYS.REQUESTS, KEYS.IN_PROGRESS, KEYS.REPORTS}
RenamedFields == {"clientId", "projectId", "divisionId", "category"}

SameRecordsKeepingFields(old, new) ==
  /\ Len(new) = Len(old)
  /\ \A i \in 1..Len(old) :
       /\ new[i]["id"] = old[i]["id"]
       /\ Cardinality({j \in 1..Len(new) : new[j]["id"] = old[i]["id"]}) = 1
       /\ (DOMAIN new[i]) \ RenamedFields = (DOMAIN old[i]) \ RenamedFields
       /\ \A f \in (DOMAIN old[i]) \ RenamedFields : new[i][f] = old[i][f]

\* C1: at every point of runMigration and after it, the requests, in-progress
\* and reports collections hold the records the program start found: the same
\* ids, each once, and every field other than clientId, projectId, divisionId
\* and category with the value it had.
C1_MigrationPreservesRecords ==
  \A k \in MigratedKeys : SameRecordsKeepingFields(getData(ls0, k), getData(ls, k))

C1_Witness ==
  /\ pc = "done"
  /\ marker0 = 0
  /\ marker = SCHEMA_VERSION
  /\ Len(getData(ls0, KEYS.REQUESTS)) = MaxRecs
  /\ \E i \in 1..MaxRecs : Has(getData(ls0, KEYS.REQUESTS)[i], "clientId")
  /\ ls[KEYS.REQUESTS] # ls0[KEYS.REQUESTS]

\* C2: a second complete run of runMigration leaves collections and marker as
\* the first complete run left them, and a program start that finds the marker
\* at 2 never changes a key.
C2_MigrationIdempotent ==
  /\ (pc = "done" /\ runs >= 2) => <<ls, marker>> = after1
  /\ marker0 = SCHEMA_VERSION => (ls = ls0 /\ marker = marker0)

C2_Witness ==
  /\ pc = "done"
  /\ runs = 2
  /\ marker0 = 0
  /\ after1[1] # ls0
  /\ ls0[LEGACY_CLIENTS] # Absent

\* C3: a run of runMigration that completes after any number of interruptions
\* and restarts leaves collections and marker as the uninterrupted run from
\* the same initial store leaves them.
C3_MigrationResumable ==
  pc = "done" => <<ls, marker>> = Uninterrupted(ls0, marker0)

C3_Witness ==
  /\ pc = "done"
  /\ interrupted
  /\ runs = 1
  /\ marker0 = 0
  /\ ls0[LEGACY_CLIENTS] # Absent
  /\ \E i \in 1..Len(getData(ls0, KEYS.REQUESTS)) :
       Has(getData(ls0, KEYS.REQUESTS)[i], "clientId")

NoClientId(store) ==
  \A k \in EntityKeys : \A i \in 1..Len(getData(store, k)) :
     ~Has(getData(store, k)[i], "clientId")

\* C4: when the marker reads 2 after a start below 2, no record of the six
\* entity collections carries a clientId field (the marker advances only after
\* the collection writes of the step are persisted).
C4_MarkerOnlyAfterWrites ==
  (marker = SCHEMA_VERSION /\ marker0 < SCHEMA_VERSION) => NoClientId(ls)

\* C5: once the v1->v2 step has handled the legacy key, the clients key is
\* absent; the projects key reads as the legacy clients records when it was
\* absent or '[]' on entry to the step, and is unchanged when it held records.
C5_ClientsKeyRenamed ==
  (pc \in {"s2_ver", "done"} /\ NeedsV2(cv)) =>
    /\ ls[LEGACY_CLIENTS] = Absent
    /\ (pre2[KEYS.PROJECTS] \in {Absent, Arr(<<>>)}) =>
          getData(ls, KEYS.PROJECTS) = getData(pre2, LEGACY_CLIENTS)
    /\ (pre2[KEYS.PROJECTS].kind = "arr" /\ Len(pre2[KEYS.PROJECTS].recs) > 0) =>
          ls[KEYS.PROJECTS] = pre2[KEYS.PROJECTS]

C5_Witness ==
  /\ pc = "done"
  /\ NeedsV2(cv)
  /\ pre2[LEGACY_CLIENTS] = Arr(<<ProjectRec("p1")>>)
  /\ pre2[KEYS.PROJECTS] = Arr(<<ProjectRec("p2")>>)
  /\ ls[KEYS.PROJECTS] = Arr(<<ProjectRec("p2")>>)
  /\ ls[LEGACY_CLIENTS] = Absent

Backfilled(old, new, f, default) ==
  /\ Has(new, f)
  /\ Has(old, f) => new[f] = old[f]
  /\ ~Has(old, f) => new[f] = default

InList(r, id) ==
  /\ r.t = "list"
  /\ \E i \in 1..Len(r.v.items) : r.v.items[i]["id"] = id

Referencing(store, key, projectId) ==
  {r["id"] : r \in {x \in SeqRange(getData(store, key)) : FieldIs(x, "projectId", projectId)}}

\* C7: after deleteProject(p) of an existing project p, with the write
\* succeeding, every request, in-progress item and report whose projectId was
\* p is in the matching getUnassigned* result and is no longer in the matching
\* get*ByProject(p) result.
C7_UnassignedPartition ==
  [][(/\ op'.name = "deleteProject"
      /\ ~op'.wf
      /\ op'.id \in IdsOf(ls, KEYS.PROJECTS))
     => /\ \A id \in Referencing(ls, KEYS.REQUESTS, op'.id) :
             /\ InList(getUnassignedRequests(ls', FALSE), id)
             /\ ~InList(getRequestsByProject(ls', op'.id, FALSE), id)
        /\ \A id \in Referencing(ls, KEYS.IN_PROGRESS, op'.id) :
             /\ InList(getUnassignedInProgress(ls', FALSE), id)
             /\ ~InList(getInProgressByProject(ls', op'.id, FALSE), id)
        /\ \A id \in Referencing(ls, KEYS.REPORTS, op'.id) :
             /\ InList(getUnassignedReports(ls', FALSE), id)
             /\ ~InList(getReportsByProject(ls', op'.id, FALSE, FALSE), id)]_vars

\* C8: a deleteProject(id) step leaves every collection other than projects
\* exactly as it was (so every dependent record keeps its projectId), and the
\* projects collection is the old one without the records whose id is id (or
\* the old one, when the write fails).
C8_DeleteProjectNoCascade ==
  [][op'.name = "deleteProject"
     => /\ \A k \in AllKeys \ {KEYS.PROJECTS} : ls'[k] = ls[k]
        /\ op'.wf => ls' = ls
        /\ ~op'.wf =>
             ls'[KEYS.PROJECTS] =
               Arr(SelectSeq(getData(ls, KEYS.PROJECTS), LAMBDA r : r["id"] # op'.id))]_vars

C8_Witness ==
  /\ op.name = "deleteProject"
  /\ op.id = "p1"
  /\ ~op.wf
  /\ IdsOf(ls, KEYS.PROJECTS) = {"p2"}
  /\ "r1" \in Referencing(ls, KEYS.REQUESTS, "p1")
  /\ "doc1" \in Referencing(ls, KEYS.DOCUMENTS, "p1")
  /\ "c1" \in Referencing(ls, KEYS.CONTROL_ITEMS, "p1")

\* C9: when the write of a Store mutation fails, the mutation does not throw
\* and the value it returns differs from the value the same call returns when
\* the write succeeds.
C9_WriteFailureReported ==
  (op.name \in MutationNames /\ op.wf) =>
    /\ ret.t # "threw"
    /\ ret # Mutate(ls, [op EXCEPT !.wf = FALSE]).ret

\* C10: a getter whose read of the key throws, or finds text that is not valid
\* JSON, returns the empty collection (a by-id getter: null) and no exception
\* leaves it; and a getter step leaves the backing store as it was.
ReadNames == DOMAIN ListGetters \cup DOMAIN ByProjectGetters \cup DOMAIN ByIdGetters
ReadFailed == op.rt \/ ls[op.key].kind = "corrupt"
C10_ReadFailureSoft ==
  /\ []((op.name \in ReadNames /\ ReadFailed) =>
          ret = IF op.name \in DOMAIN ByIdGetters THEN RetNull ELSE RetList(<<>>))
  /\ [][op'.name \in ReadNames => ls' = ls]_vars

C10_Witness ==
  /\ op.name = "getRequests"
  /\ op.rt
  /\ Len(getData(ls, KEYS.REQUESTS)) = 2
  /\ ret = RetList(<<>>)

\* C11: an update* or delete* step whose id matches no record of its
\* collection leaves what every collection reads as unchanged; the update*
\* returns null and the delete*, its write succeeding, returns true.
C11_MissingIdNoEffect ==
  [][(/\ op'.name \in UpdateNames \cup DeleteNames
      /\ op'.id \notin IdsOf(ls, op'.key))
     => /\ \A k \in AllKeys : getData(ls', k) = getData(ls, k)
        /\ op'.name \in UpdateNames => ret' = RetNull
        /\ (op'.name \in DeleteNames /\ ~op'.wf) => ret' = RetBool(TRUE)]_vars

C11_Witness ==
  /\ op.name = "updateRequest"
  /\ op.id = "nope"
  /\ ret = RetNull
  /\ IdsOf(ls, KEYS.REQUESTS) = {"r1", "r2"}

\* ---- update*: the merge
\* the record the update step acted on, before and after
Target(store, o) == getData(store, o.key)[IndexOf(getData(store, o.key), o.id)]
UpdatesExisting(store, o) ==
  /\ o.name \in UpdateNames
  /\ ~o.wf
  /\ o.id \in IdsOf(store, o.key)

\* exactly the named fields of exactly that record change, and the merged
\* record is returned
MergesNamedFields(old, new, o, result) ==
  LET i == IndexOf(getData(old, o.key), o.id)
      before == getData(old, o.key)[i]
      after == getData(new, o.key)[i]
  IN /\ \A k \in AllKeys \ {o.key} : new[k] = old[k]
     /\ Len(getData(new, o.key)) = Len(getData(old, o.key))
     /\ \A j \in 1..Len(getData(old, o.key)) :
          j # i => getData(new, o.key)[j] = getData(old, o.key)[j]
     /\ DOMAIN after = DOMAIN before \cup DOMAIN o.arg
     /\ \A f \in DOMAIN o.arg : after[f] = o.arg[f]
     /\ \A f \in DOMAIN before \ DOMAIN o.arg : after[f] = before[f]
     /\ result = RetRec(after)

\* a fetch by the id the update was called with returns what update* returned
FetchReturnsMerged(new, o, result) ==
  Found(GetDataR(new, o.key, FALSE), o.id) = result

C13_AddGetRoundTrip ==
  [][(op'.name \in AddNames /\ ~op'.wf) =>
       /\ ret'.t = "rec"
       /\ \A f \in DOMAIN op'.arg :
            /\ Has(ret'.v, f)
            /\ ret'.v[f] = op'.arg[f] \/ ret'.v[f] = Trim(op'.arg[f])
       /\ Has(ret'.v, "id")
       /\ Found(GetDataR(ls', op'.key, FALSE), ret'.v["id"]) = ret'
       /\ getData(ls', op'.key) = Append(getData(ls, op'.key), ret'.v)
       /\ \A k \in AllKeys \ {op'.key} : ls'[k] = ls[k]]_vars

C13_Witness ==
  /\ op.name = "addReport"
  /\ ~op.wf
  /\ ret.t = "rec"
  /\ DOMAIN op.arg = {"title", "datePublished"}
  /\ ret.v["category"] = "recurring"
  /\ getReportById(ls, ret.v["id"], FALSE) = ret
  /\ getReportById(ls, "rp1", FALSE).t = "rec"

\* C14: in every reachable state of the Store, no two records of one
\* collection have the same id.
C14_IdsUnique ==
  \A k \in AllKeys :
    \A i, j \in 1..Len(getData(ls, k)) :
      i # j => getData(ls, k)[i]["id"] # getData(ls, k)[j]["id"]

\* the enumerated field each add* must default, with its allowed values
EnumField ==
  [addRequest |-> "urgency", addInProgressItem |-> "status", addControlItem |-> "status",
   addReport |-> "category", addDocument |-> "category"]
EnumValues ==
  [addRequest |-> {"low", "medium", "high"},
   addInProgressItem |-> {"not-started", "in-progress", "in-review"},
   addControlItem |-> {"current", "upcoming", "overdue"},
   addReport |-> {"legal", "pricing", "recurring"},
   addDocument |-> {"legal", "pricing", "recurring"}]

\* C15: the record returned by addRequest, addInProgressItem, addControlItem,
\* addReport or addDocument holds an allowed value in its enumerated field,
\* also when the input omits that field.
C15_EnumDefaults ==
  (op.name \in DOMAIN EnumField /\ ret.t = "rec") =>
    /\ Has(ret.v, EnumField[op.name])
    /\ ret.v[EnumField[op.name]] \in EnumValues[op.name]

\* ---- orderings
CountIn(s, x) == Cardinality({i \in 1..Len(s) : s[i] = x})
IsPermutation(s, t) ==
  /\ Len(s) = Len(t)
  /\ \A x \in SeqRange(s) \cup SeqRange(t) : CountIn(s, x) = CountIn(t, x)

KnownUrgencies == {"low", "medium", "high"}
UrgencyRank(u) == IF u = "high" THEN 1 ELSE IF u = "medium" THEN 2 ELSE 3
HighFirstNewestFirst(s) ==
  \A i, j \in 1..Len(s) :
    i < j =>
      \/ UrgencyRank(s[i]["urgency"]) < UrgencyRank(s[j]["urgency"])
      \/ /\ s[i]["urgency"] = s[j]["urgency"]
         /\ TimeOf(s[i]["dateSubmitted"]) >= TimeOf(s[j]["dateSubmitted"])

\* the requests a request getter is asked for
Asked(store, o) ==
  IF o.name = "getRequests" THEN getData(store, KEYS.REQUESTS)
  ELSE IF o.name = "getRequestsByProject"
  THEN SelectSeq(getData(store, KEYS.REQUESTS), LAMBDA r : FieldIs(r, "projectId", o.id))
  ELSE SelectSeq(getData(store, KEYS.REQUESTS), LAMBDA r : Falsy(r, "projectId"))

\* C16: when every stored request has an urgency in {low, medium, high}, the
\* result of getRequests, getRequestsByProject and getUnassignedRequests is a
\* permutation of the (filtered) collection, high before medium before low,
\* and newest dateSubmitted first among equal urgency.
C16_RequestsOrdered ==
  (/\ op.name \in {"getRequests", "getRequestsByProject", "getUnassignedRequests"}
   /\ ~op.rt
   /\ \A r \in SeqRange(getData(ls, KEYS.REQUESTS)) :
        Has(r, "urgency") /\ r["urgency"] \in KnownUrgencies)
  => /\ ret.t = "list"
     /\ IsPermutation(ret.v.items, Asked(ls, op))
     /\ HighFirstNewestFirst(ret.v.items)

C16_Witness ==
  /\ op.name = "getRequests"
  /\ ~op.rt
  /\ ret.t = "list"
  /\ Len(ret.v.items) = 4
  /\ <<ret.v.items[1]["id"], ret.v.items[2]["id"], ret.v.items[3]["id"], ret.v.items[4]["id"]>>
       = <<"r4", "r2", "r3", "r1">>
  /\ getData(ls, KEYS.REQUESTS)[1]["id"] = "r1"

StatusRank(r) ==
  IF ~Has(r, "status") THEN 4
  ELSE IF r["status"] = "overdue" THEN 1
  ELSE IF r["status"] = "upcoming" THEN 2
  ELSE IF r["status"] = "current" THEN 3 ELSE 4

\* C17: the result of getControlItems(projectId) holds that project's control
\* items with every overdue item before every upcoming one, every upcoming
\* one before every current one, and unknown statuses after all of these.
C17_ControlItemsOrdered ==
  (op.name = "getControlItems" /\ ~op.rt) =>
    /\ ret.t = "list"
    /\ IsPermutation(ret.v.items,
                     SelectSeq(getData(ls, KEYS.CONTROL_ITEMS),
                               LAMBDA c : FieldIs(c, "projectId", op.id)))
    /\ \A i, j \in 1..Len(ret.v.items) :
         i < j => StatusRank(ret.v.items[i]) <= StatusRank(ret.v.items[j])

\* text holds term at some position, comparing characters without case
ContainsIgnoringCase(text, term) ==
  \E k \in 0..(Len(text) - Len(term)) :
    \A i \in 1..Len(term) : ToLowerChar(text[k + i]) = ToLowerChar(term[i])

\* C18: filterBySearchTerm(items, term, fields) returns, in their order,
\* exactly the items one of whose named fields contains term ignoring case;
\* with the empty term it returns items as they are.
C18_FilterBySearchTerm ==
  pc = "filtered" =>
    /\ ret.t = "list"
    /\ ret.v.items =
         IF op.arg.term = <<>> THEN op.arg.items
         ELSE SelectSeq(op.arg.items, LAMBDA item :
                \E n \in 1..Len(op.arg.fields) :
                  /\ Has(item, op.arg.fields[n])
                  /\ ContainsIgnoringCase(item[op.arg.fields[n]], op.arg.term))

C18_Witness ==
  /\ pc = "filtered"
  /\ op.arg.term = <<"a", "b">>
  /\ op.arg.fields = <<"title", "description">>
  /\ op.arg.items = <<[description |-> <<"b">>], [title |-> <<"b", "a">>, description |-> <<"A", "A", "b">>],
                      [title |-> <<"A", "b">>]>>
  /\ ret.v.items = <<[title |-> <<"b", "a">>, description |-> <<"A", "A", "b">>],
                     [title |-> <<"A", "b">>]>>

\* ========================================================= ROUTER: THE CLAIMS
\* C19: a selectProject(id) step whose id matches no project in the Store
\* leaves every field of the Router state as it was.
C19_SelectProjectGuard ==
  [][(op'.name = "selectProject" /\ op'.id \notin IdsOf(ls, KEYS.PROJECTS))
     => state' = state]_vars

C19_Witness ==
  /\ op.name = "selectProject"
  /\ op.id = "p1"
  /\ "p1" \notin IdsOf(ls, KEYS.PROJECTS)
  /\ state.currentView = "manage-projects"
  /\ state.selectedProjectId = "p2"
  /\ state.activeZone = 2

\* C20: a selectProject(id) step for an existing project sets currentView to
\* 'project', selectedProjectId to id, selectedDivisionId to the project's
\* divisionId, activeZone to 1 and reportsSearchTerm to empty; the division
\* is in expandedDivisions afterwards, exactly once if it was absent, and every
\* other member occurs as often as before; globalSearchTerm and
\* showActiveProjectsOnly keep their values.
C20_SelectProjectEffect ==
  [][(op'.name = "selectProject" /\ op'.id \in IdsOf(ls, KEYS.PROJECTS))
     => LET project == getData(ls, KEYS.PROJECTS)[IndexOf(getData(ls, KEYS.PROJECTS), op'.id)]
            was == state.expandedDivisions
            now == state'.expandedDivisions
        IN /\ state'.currentView = "project"
           /\ state'.selectedProjectId = op'.id
           /\ state'.selectedDivisionId = project["divisionId"]
           /\ state'.activeZone = 1
           /\ state'.reportsSearchTerm = ""
           /\ Includes(now, project["divisionId"])
           /\ \A d \in SeqRange(was) \cup SeqRange(now) :
                CountIn(now, d) =
                  IF d = project["divisionId"] /\ CountIn(was, d) = 0 THEN 1 ELSE CountIn(was, d)
           /\ state'.globalSearchTerm = state.globalSearchTerm
           /\ state'.showActiveProjectsOnly = state.showActiveProjectsOnly]_vars

C20_Witness ==
  /\ op.name = "selectProject"
  /\ op.id = "p2"
  /\ state.currentView = "project"
  /\ state.selectedProjectId = "p2"
  /\ state.selectedDivisionId = "d2"
  /\ state.expandedDivisions = <<"d2", "d1">>
  /\ state.globalSearchTerm = "a"
  /\ ~state.showActiveProjectsOnly

\* ---- the Router function a call names, applied to a state
RouterNames ==
  {"navigate", "selectProject", "setActiveZone", "toggleDivision", "setGlobalSearch",
   "setReportsSearch", "setActiveProjectsOnly", "goHome"}
Called(st, store, o) ==
  CASE o.name = "navigate" -> navigate(st, o.id, o.arg.params)
    [] o.name = "selectProject" -> selectProject(st, store, o.id)
    [] o.name = "setActiveZone" -> setActiveZone(st, o.arg.zoneNumber)
    [] o.name = "toggleDivision" -> toggleDivision(st, o.id)
    [] o.name = "setGlobalSearch" -> setGlobalSearch(st, o.arg.term)
    [] o.name = "setReportsSearch" -> setReportsSearch(st, o.arg.term)
    [] o.name = "setActiveProjectsOnly" -> setActiveProjectsOnly(st, o.arg.value)
    [] o.name = "goHome" -> goHome(st)

Aborted(store, o) == o.name = "selectProject" /\ o.id \notin IdsOf(store, KEYS.PROJECTS)
\* the render callback will call goHome: project view of a project not stored
Orphaned(store, st) ==
  st.currentView = "project" /\ st.selectedProjectId \notin IdsOf(store, KEYS.PROJECTS)

\* one render per call, after the call's state change; the goHome that the
\* callback itself issues for an orphaned project view is a call of its own
OneRenderPerCall(st, store, o, seen, final) ==
  LET s1 == Called(st, store, o).state
  IN IF Orphaned(store, s1)
     THEN seen = <<s1, goHome(s1).state>> /\ final = goHome(s1).state
     ELSE seen = <<s1>> /\ final = s1

\* C21 (as stated): every call of navigate, selectProject, setActiveZone,
\* toggleDivision, setGlobalSearch, setReportsSearch, setActiveProjectsOnly
\* and goHome runs the render callback exactly once, and the callback sees
\* the state the call left.
C21_EveryCallRendersOnce ==
  [][op'.name \in RouterNames => OneRenderPerCall(state, ls, op', renders', state')]_vars

\* C21 (amended): every such call that performs its transition runs the render
\* callback exactly once, and the callback sees the state the call left; a
\* selectProject call whose id matches no project performs no transition and
\* runs no callback.
C21_RendersOncePerTransition ==
  [][op'.name \in RouterNames =>
       IF Aborted(ls, op') THEN renders' = <<>> /\ state' = state
       ELSE OneRenderPerCall(state, ls, op', renders', state')]_vars

C21_Witness ==
  /\ op.name = "setActiveZone"
  /\ op.arg.zoneNumber = 2
  /\ Len(renders) = 1
  /\ renders[1].activeZone = 2
  /\ renders[1].currentView = "project"
  /\ state = renders[1]

\* C22: whatever a caller does to the object getState returned, to its
\* properties or to its expandedDivisions array, the Router's state, which a
\* later getState returns, is what it was.
C22_GetStateDefensive ==
  [][op'.name = "getState" => state' = state]_vars

\* the fields of the Router state
StateFields == DOMAIN InitialState
\* s and t agree on every field outside changed
SameExcept(s, t, changed) == \A f \in StateFields \ changed : s[f] = t[f]

\* C23: the state a setActiveZone(n) call leaves (the one its render callback
\* sees) has activeZone n and an empty reportsSearchTerm, and every other
\* field as before the call.
C23_SetActiveZoneFrame ==
  [][op'.name = "setActiveZone" =>
       /\ Len(renders') >= 1
       /\ renders'[1].activeZone = op'.arg.zoneNumber
       /\ renders'[1].reportsSearchTerm = ""
       /\ SameExcept(renders'[1], state, {"activeZone", "reportsSearchTerm"})]_vars

C23_Witness ==
  /\ op.name = "setActiveZone"
  /\ op.arg.zoneNumber = 2
  /\ state.activeZone = 2
  /\ state.currentView = "project"
  /\ state.selectedProjectId = "p1"
  /\ state.globalSearchTerm = "a"
  /\ state.reportsSearchTerm = ""
  /\ state.expandedDivisions = <<"d2", "d1">>
  /\ ~state.showActiveProjectsOnly

\* C24: the state a goHome call leaves has currentView 'home', no selected
\* project or division and both search terms empty; expandedDivisions and
\* showActiveProjectsOnly are as before the call.
C24_GoHomeFrame ==
  [][op'.name = "goHome" =>
       /\ state'.currentView = "home"
       /\ state'.selectedProjectId = NULL
       /\ state'.selectedDivisionId = NULL
       /\ state'.globalSearchTerm = ""
       /\ state'.reportsSearchTerm = ""
       /\ state'.expandedDivisions = state.expandedDivisions
       /\ state'.showActiveProjectsOnly = state.showActiveProjectsOnly]_vars

C24_Witness ==
  /\ op.name = "goHome"
  /\ state.currentView = "home"
  /\ state.selectedProjectId = NULL
  /\ state.expandedDivisions = <<"d1", "d2">>
  /\ ~state.showActiveProjectsOnly

\* C25: the state a toggleDivision(id) call leaves has id expanded exactly
\* when it was not before, every other id expanded exactly when it was
\* before, and a second toggleDivision(id) on it gives back the original set
\* of expanded divisions.
C25_ToggleDivision ==
  [][op'.name = "toggleDivision" =>
       LET was == state.expandedDivisions
           now == renders'[1].expandedDivisions
           again == toggleDivision(renders'[1], op'.id).state.expandedDivisions
       IN /\ Includes(now, op'.id) <=> ~Includes(was, op'.id)
          /\ \A d \in (SeqRange(was) \cup SeqRange(now)) \ {op'.id} :
               Includes(now, d) <=> Includes(was, d)
          /\ SeqRange(again) = SeqRange(was)
          /\ SameExcept(renders'[1], state, {"expandedDivisions"})]_vars

C25_Witness ==
  /\ op.name = "toggleDivision"
  /\ op.id = "d1"
  /\ state.expandedDivisions = <<"d2">>
  /\ state.selectedDivisionId = "d1"

\* --------------------------------------------------------------- debounce
PendingFor(box) == Len(SelectSeq(boxes.timers, LAMBDA t : t.box = box))

\* C26: debouncing the search inputs changes nothing in the Router state: in
\* every interleaving of keystrokes, timer expiries and navigation, a term
\* that a navigation emptied stays empty until a keystroke that comes after
\* that navigation, and the keystrokes of a burst end in one setter call (one
\* timer pending for the input).
C26_DebounceTransparent ==
  /\ ~boxes.typedG => state.globalSearchTerm = ""
  /\ ~boxes.typedR => state.reportsSearchTerm = ""
  /\ PendingFor("global") <= 1
  /\ PendingFor("reports") <= 1

\* ---------------------------------------------------------------- promote
\* the requests with this text and the in-progress items made from them
WorkItems(store, before, description, requester) ==
  LET requests == getData(store, KEYS.REQUESTS)
      items == getData(store, KEYS.IN_PROGRESS)
  IN Cardinality({i \in 1..Len(requests) :
                    /\ requests[i]["description"] = description
                    /\ requests[i]["requester"] = requester})
     + Cardinality({i \in 1..Len(items) :
                    /\ items[i]["id"] \notin IdsOf(before, KEYS.IN_PROGRESS)
                    /\ items[i]["taskDescription"] = Trim(description)
                    /\ items[i]["requester"] = Trim(requester)})

\* C27: promoting a request never loses the work item: in every state during
\* or after a promote, a failing write or a stop between the two writes
\* included, every request the store had is still a request or is an
\* in-progress item.
C27_PromoteKeepsItem ==
  \A i \in 1..Len(getData(ls0, KEYS.REQUESTS)) :
    LET r == getData(ls0, KEYS.REQUESTS)[i]
    IN WorkItems(ls, ls0, r["description"], r["requester"])
         >= WorkItems(ls0, ls0, r["description"], r["requester"])

\* ------------------------------------------------ the v1 and the v2 queries
\* a store as the v1 Store writes it: no projects key, no projectId field
WrittenByV1(store) ==
  /\ store[KEYS.PROJECTS].kind = "absent"
  /\ \A k \in EntityKeys : \A i \in 1..Len(getData(store, k)) :
       ~Has(getData(store, k)[i], "projectId")

\* the ids of the records a query returned, in the order returned
RetIds(r) ==
  IF r.t = "list" THEN [i \in 1..Len(r.v.items) |-> r.v.items[i]["id"]]
  ELSE IF r.t = "rec" THEN <<r.v["id"]>>
  ELSE <<>>

ClientIdsAsked == {"p1", "p2", NULL, "nope"}
CategoriesAsked == {"", "legal"}

SameAnswers(old, new) ==
  /\ \A id \in ClientIdsAsked :
       /\ RetIds(getRequestsByProject(new, id, FALSE)) = RetIds(getRequestsByClient(old, id))
       /\ RetIds(getInProgressByProject(new, id, FALSE)) = RetIds(getInProgressByClient(old, id))
       /\ \A activeOnly \in BOOLEAN :
            RetIds(getReportsByProject(new, id, activeOnly, FALSE))
              = RetIds(getReportsByClient(old, id, activeOnly))
       /\ \A category \in CategoriesAsked :
            RetIds(getDocuments(new, id, category, FALSE))
              = RetIds(getDocumentsV1(old, id, category))
       /\ RetIds(getDashboardLinks(new, id, "", FALSE)) = RetIds(getDashboardLinksV1(old, id, ""))
       /\ RetIds(getControlItems(new, id, FALSE)) = RetIds(getControlItemsV1(old, id))
       /\ RetIds(getProjectById(new, id, FALSE)) = RetIds(getClientById(old, id))
  /\ RetIds(getUnassignedRequests(new, FALSE)) = RetIds(getUnassignedRequestsV1(old))
  /\ RetIds(getUnassignedInProgress(new, FALSE)) = RetIds(getUnassignedInProgressV1(old))
  /\ RetIds(getUnassignedReports(new, FALSE)) = RetIds(getUnassignedReportsV1(old))

\* C28: the rename of clientId to projectId changes no query result: for a
\* store the v1 Store wrote, once the v2 Store's runMigration is done every
\* by-project query and every getUnassigned* query returns the records, by
\* id, that the v1 Store's by-client query returned for the same argument.
C28_RenameKeepsQueries ==
  (pc = "done" /\ marker0 = 1 /\ WrittenByV1(ls0)) => SameAnswers(ls0, ls)

\* a v1 store with a client and a request of that client has been migrated
C28_Witness ==
  /\ pc = "done"
  /\ marker0 = 1
  /\ WrittenByV1(ls0)
  /\ getClientById(ls0, "p1").t = "rec"
  /\ RetIds(getRequestsByClient(ls0, "p1")) # <<>>
  /\ RetIds(getRequestsByProject(ls, "p1", FALSE)) # <<>>

\* ------------------------------------------------- the Router and the Store
\* C29: whenever currentView is 'project', selectedProjectId is the id of a
\* project the Store has, in every state the UI's operations reach:
\* selectProject, goHome, navigate('manage-projects'), setActiveZone,
\* toggleDivision, the setters, addProject, and deleteProject in the project
\* manager only.
C29_ProjectViewHasProject ==
  state.currentView = "project" => state.selectedProjectId \in IdsOf(ls, KEYS.PROJECTS)

\* a project view entered after the other project was deleted in the manager
C29_Witness ==
  /\ state.currentView = "project"
  /\ state.selectedProjectId = "p1"
  /\ "p2" \notin IdsOf(ls, KEYS.PROJECTS)
  /\ op.name = "selectProject"

\* C30: expandedDivisions behaves as a set: in every state reached by
\* selectProject, toggleDivision, setActiveZone, goHome and the setters, each
\* division id occurs in it at most once.
C30_ExpandedDivisionsIsSet ==
  \A i, j \in 1..Len(state.expandedDivisions) :
    state.expandedDivisions[i] = state.expandedDivisions[j] => i = j

\* selectProject of a project whose division was expanded before another one
C30_Witness ==
  /\ op.name = "selectProject"
  /\ state.selectedProjectId = "p1"
  /\ state.expandedDivisions = <<"d1", "d2">>

====
